---- MODULE Spec2Model ----
(***************************************************************************)
(* Self-update subsystem of ghex: Updater.Update, BinaryManager.Backup /   *)
(* Replace / Restore, the detached Windows helper script, the rollback     *)
(* command and the interrupt handler of the command line.                  *)
(*                                                                         *)
(* Files are sequences of bytes with a permission mode; a copy is an       *)
(* open (create / truncate) followed by one write per chunk, so that       *)
(* every intermediate content of a file is a state of the model.  Every    *)
(* system call the code checks the error of may fail.  Strings that the    *)
(* code takes prefixes and suffixes of are sequences of tokens.            *)
(*                                                                         *)
(* The functions of the package that keep no state (ParseVersion,          *)
(* Version.String, Version.Compare, CheckForUpdate, VerifyChecksum,        *)
(* FindChecksum, SelectAssetForPlatform, GetChangelog) are operators on    *)
(* sequences, each with a specification that draws its arguments and       *)
(* applies it once.  DownloadAsset, download.FromURL and download.Multiple *)
(* run step by step in a frame of their own, and so do two updates started *)
(* on one installation, whose files are inodes behind their paths.         *)
(***************************************************************************)
EXTENDS Integers, Sequences, FiniteSets, TLC

\* ------------------------------------------------------------- bounds
MaxLen == 2
MaxAttempts == 1
\* the longest run of digits in a component of a version text
MaxDigits == 2
\* the largest component of the versions that are compared
MaxNum == 1
\* the longest list of entries, assets or releases a function is called on
MaxList == 3
\* the largest number of bytes in the body of a download
MaxBody == 3
\* the largest number of retries asked for in the options of a download
MaxRetries == 2
\* the longest list of URLs given to Multiple
MaxUrls == 6

\* ------------------------------------------------------------- values
\* The contents a binary installed at first may have: one per length, the
\* byte at offset i being i (a copy never looks at the bytes it moves).
Contents == {[i \in 1..n |-> i] : n \in 1..MaxLen}

ModeExec == "0755"
ModeCreate == "0644"
ModePrivate == "0700"
Modes == {ModeCreate, ModeExec, ModePrivate}
ExecModes == {ModeExec, ModePrivate}

NoFile == [data |-> <<>>, mode |-> "absent"]
File(d, m) == [data |-> d, mode |-> m]
Exists(f) == f.mode # "absent"

\* The binaries the releases carry; their bytes differ from every byte of
\* an original binary, and neither is a prefix of the other.
NewBinary == <<15>>
EvilBinary == <<16, 17>>

GOOSes == {"linux", "darwin", "windows"}
GOARCH == "amd64"

DefaultBinaryName == "ghex"

\* ------------------------------------------------------------- strings
HasPrefix(s, p) == Len(p) <= Len(s) /\ SubSeq(s, 1, Len(p)) = p
HasSuffix(s, p) == Len(p) <= Len(s) /\ SubSeq(s, Len(s) - Len(p) + 1, Len(s)) = p
Last(s) == s[Len(s)]

ToLowerTok(t) ==
  CASE t = "AB12" -> "ab12"
    [] t = "CD34" -> "cd34"
    [] OTHER -> t
ToLower(s) == [i \in 1..Len(s) |-> ToLowerTok(s[i])]

\* unicode.IsSpace on the characters of the model
IsSpace(c) == c \in {" ", "\t", "\n", "\r"}

RECURSIVE TrimLeft(_)
TrimLeft(s) == IF s # <<>> /\ IsSpace(Head(s)) THEN TrimLeft(Tail(s)) ELSE s

RECURSIVE TrimRight(_)
TrimRight(s) ==
  IF s # <<>> /\ IsSpace(Last(s)) THEN TrimRight(SubSeq(s, 1, Len(s) - 1)) ELSE s

\* strings.TrimSpace
TrimSpace(s) == TrimRight(TrimLeft(s))

\* the characters that occur in version texts, in the order of their bytes
ByteOrder == <<"\t", "\n", "\r", " ", "+", "-", ".",
               "0", "1", "2", "3", "4", "5", "6", "7", "8", "9",
               "V", "a", "b", "c", "r", "v", "x">>
Ord(c) == CHOOSE i \in 1..Len(ByteOrder) : ByteOrder[i] = c

DigitChars == <<"0", "1", "2", "3", "4", "5", "6", "7", "8", "9">>
IsDigit(c) == \E i \in 1..Len(DigitChars) : DigitChars[i] = c
DigitValue(c) == (CHOOSE i \in 1..Len(DigitChars) : DigitChars[i] = c) - 1

\* the operator < of Go on two strings: byte by byte, a proper prefix first
RECURSIVE StringLess(_, _)
StringLess(s, t) ==
  IF t = <<>> THEN FALSE
  ELSE IF s = <<>> THEN TRUE
  ELSE IF Head(s) # Head(t) THEN Ord(Head(s)) < Ord(Head(t))
  ELSE StringLess(Tail(s), Tail(t))

\* strconv.Atoi on a run of digits (short enough not to overflow an int)
RECURSIVE Atoi(_)
Atoi(ds) ==
  IF ds = <<>> THEN 0
  ELSE Atoi(SubSeq(ds, 1, Len(ds) - 1)) * Len(DigitChars) + DigitValue(Last(ds))

\* fmt's %d of a natural number
RECURSIVE FormatInt(_)
FormatInt(n) ==
  IF n < Len(DigitChars) THEN <<DigitChars[n + 1]>>
  ELSE FormatInt(n \div Len(DigitChars)) \o <<DigitChars[(n % Len(DigitChars)) + 1]>>

\* ------------------------------------------------------------- platform.go
GetAssetName(os, arch) ==
  LET ext == IF os = "windows" THEN ".zip" ELSE ".tar.gz"
  IN  <<"ghex", "-", os, "-", arch, ext>>

RECURSIVE FirstIndex(_, _, _)
\* the first index i >= from of seq s with P[i], or 0
FirstIndex(P, from, n) ==
  IF from > n THEN 0
  ELSE IF P[from] THEN from
  ELSE FirstIndex(P, from + 1, n)

\* SelectAssetForPlatform with one loop over the assets that takes the first
\* asset matching in either way
SelectAssetForPlatformOnePass(release, os, arch) ==
  LET assets == release.Assets
      n == Len(assets)
      expectedName == GetAssetName(os, arch)
      alternatives == {<<"ghex", "_", os, "_", arch>>, <<"ghex", "-", os, "-", arch>>}
  IN  FirstIndex([i \in 1..n |->
                    \/ assets[i].Name = expectedName
                    \/ \E a \in alternatives : HasPrefix(assets[i].Name, a)], 1, n)

\* the index of the selected asset in release.Assets, or 0 (ErrAssetNotFound)
SelectAssetForPlatform(release, os, arch) ==
  LET assets == release.Assets
      n == Len(assets)
      expectedName == GetAssetName(os, arch)
      exact == FirstIndex([i \in 1..n |-> assets[i].Name = expectedName], 1, n)
      alternatives == {<<"ghex", "_", os, "_", arch>>, <<"ghex", "-", os, "-", arch>>}
      alt == FirstIndex([i \in 1..n |->
                           \E a \in alternatives : HasPrefix(assets[i].Name, a)], 1, n)
  IN  IF exact # 0 THEN exact ELSE alt

\* ------------------------------------------------------------- checksum
\* The SHA-256 of a file, in lowercase hex: every archive of the model
\* carries its own digest, distinct archives carry distinct digests.
CalculateChecksum(file) == <<file.sha>>

\* VerifyChecksum without the comparison of the two digests
VerifyChecksumNoCompare(file, expectedChecksum, readOk) ==
  IF ~readOk THEN "ChecksumReadFailed" ELSE ""

\* VerifyChecksum comparing the digests as they are written
VerifyChecksumCaseSensitive(file, expectedChecksum, readOk) ==
  IF ~readOk THEN "ChecksumReadFailed"
  ELSE IF CalculateChecksum(file) # TrimSpace(expectedChecksum)
       THEN "ErrChecksumMismatch"
       ELSE ""

\* "" (no error) or the error VerifyChecksum returns; readOk is the outcome
\* of opening and reading the file
VerifyChecksum(file, expectedChecksum, readOk) ==
  IF ~readOk THEN "ChecksumReadFailed"
  ELSE IF ToLower(CalculateChecksum(file)) # ToLower(TrimSpace(expectedChecksum))
       THEN "ErrChecksumMismatch"
       ELSE ""

\* A manifest is a sequence of lines, a line the sequence of its
\* whitespace-separated fields, a field a sequence of tokens.
RECURSIVE ParseChecksumFile(_)
ParseChecksumFile(content) ==
  IF content = <<>> THEN <<>>
  ELSE LET parts == Head(content)
           rest == ParseChecksumFile(Tail(content))
       IN  IF parts = <<>> \/ HasPrefix(Head(parts), <<"#">>) \/ Len(parts) < 2
           THEN rest
           ELSE <<[Checksum |-> ToLower(parts[1]), Filename |-> Last(parts)]>> \o rest

\* the index of the entry FindChecksum returns, or 0 (not found)
FindChecksum(entries, filename) ==
  FirstIndex([i \in 1..Len(entries) |->
                \/ entries[i].Filename = filename
                \/ HasSuffix(entries[i].Filename, <<"/">> \o filename)],
             1, Len(entries))

ChecksumAssetNames == {<<"checksums.txt">>, <<"SHA256SUMS">>, <<"sha256sums.txt">>}

\* the index of the manifest asset DownloadChecksums fetches, or 0
ChecksumAsset(release) ==
  FirstIndex([i \in 1..Len(release.Assets) |->
                release.Assets[i].Name \in ChecksumAssetNames],
             1, Len(release.Assets))


\* ------------------------------------------------------------- version
Version(major, minor, patch, pre) ==
  [Major |-> major, Minor |-> minor, Patch |-> patch, Pre |-> pre]
NoVersion == Version(0, 0, 0, <<>>)

RECURSIVE SpanDigits(_, _)
\* the index after the longest run of digits of s that starts at index i
SpanDigits(s, i) == IF i <= Len(s) /\ IsDigit(s[i]) THEN SpanDigits(s, i + 1) ELSE i

\* versionRegex.FindStringSubmatch: ^v?(\d+)\.(\d+)\.(\d+)(?:-(.+))?$ ; the
\* matches, <<>> for nil.  A dot of the pattern matches no newline.
versionRegex(s) ==
  LET n == Len(s)
      i0 == IF n >= 1 /\ s[1] = "v" THEN 2 ELSE 1
      i1 == SpanDigits(s, i0)
      i2 == SpanDigits(s, i1 + 1)
      i3 == SpanDigits(s, i2 + 1)
  IN  IF /\ i1 > i0 /\ i1 <= n /\ s[i1] = "."
         /\ i2 > i1 + 1 /\ i2 <= n /\ s[i2] = "."
         /\ i3 > i2 + 1
         /\ \/ i3 = n + 1
            \/ /\ i3 < n
               /\ s[i3] = "-"
               /\ \A k \in (i3 + 1)..n : s[k] # "\n"
      THEN <<s, SubSeq(s, i0, i1 - 1), SubSeq(s, i1 + 1, i2 - 1),
             SubSeq(s, i2 + 1, i3 - 1), SubSeq(s, i3 + 1, n)>>
      ELSE <<>>

ParseVersion(v) ==
  LET matches == versionRegex(TrimSpace(v))
  IN  IF matches = <<>>
      THEN [v |-> NoVersion, err |-> "ErrInvalidVersion"]
      ELSE [v |-> Version(Atoi(matches[2]), Atoi(matches[3]), Atoi(matches[4]),
                          IF Len(matches) > 4 THEN matches[5] ELSE <<>>),
            err |-> ""]

\* String leaving out the pre-release identifier
StringNoPre(v) ==
  FormatInt(v.Major) \o <<".">> \o FormatInt(v.Minor) \o <<".">> \o FormatInt(v.Patch)

\* Version.String
String(v) ==
  LET numbers == FormatInt(v.Major) \o <<".">> \o FormatInt(v.Minor) \o <<".">>
                   \o FormatInt(v.Patch)
  IN  IF v.Pre # <<>> THEN numbers \o <<"-">> \o v.Pre ELSE numbers

\* Compare without the test for equal pre-release identifiers
CompareNoEqual(v, other) ==
  IF v.Major < other.Major THEN -1 ELSE IF v.Major > other.Major THEN 1
  ELSE IF v.Minor < other.Minor THEN -1 ELSE IF v.Minor > other.Minor THEN 1
  ELSE IF v.Patch < other.Patch THEN -1 ELSE IF v.Patch > other.Patch THEN 1
  ELSE IF v.Pre = <<>> /\ other.Pre # <<>> THEN 1
  ELSE IF v.Pre # <<>> /\ other.Pre = <<>> THEN -1
  ELSE IF StringLess(v.Pre, other.Pre) THEN -1
  ELSE 1

\* Compare ranking a release below its pre-releases
CompareReleaseBelow(v, other) ==
  IF v.Major < other.Major THEN -1 ELSE IF v.Major > other.Major THEN 1
  ELSE IF v.Minor < other.Minor THEN -1 ELSE IF v.Minor > other.Minor THEN 1
  ELSE IF v.Patch < other.Patch THEN -1 ELSE IF v.Patch > other.Patch THEN 1
  ELSE IF v.Pre = other.Pre THEN 0
  ELSE IF StringLess(v.Pre, other.Pre) THEN -1
  ELSE 1

\* Version.Compare
Compare(v, other) ==
  IF v.Major < other.Major THEN -1 ELSE IF v.Major > other.Major THEN 1
  ELSE IF v.Minor < other.Minor THEN -1 ELSE IF v.Minor > other.Minor THEN 1
  ELSE IF v.Patch < other.Patch THEN -1 ELSE IF v.Patch > other.Patch THEN 1
  ELSE IF v.Pre = <<>> /\ other.Pre # <<>> THEN 1
  ELSE IF v.Pre # <<>> /\ other.Pre = <<>> THEN -1
  ELSE IF v.Pre = other.Pre THEN 0
  ELSE IF StringLess(v.Pre, other.Pre) THEN -1
  ELSE 1

\* IsNewerThan true of equal versions too
IsNewerOrEqual(v, other) == Compare(v, other) >= 0

\* Version.IsNewerThan
IsNewerThan(v, other) == Compare(v, other) > 0

\* ------------------------------------------------------------- latest release
\* What the GitHub API answers to GET .../releases/latest: the request
\* fails ("error") or has a status; a body that decodes carries a tag name.
Response(status, decodes, tag) == [status |-> status, decodes |-> decodes, tag_name |-> tag]

ReleaseInfo(tag, version) == [TagName |-> tag, Version |-> version]
NoRelease == ReleaseInfo(<<>>, <<>>)

\* GetLatestRelease: the release and the error
GetLatestRelease(response) ==
  IF response.status = "error" THEN [release |-> NoRelease, err |-> "ErrNetworkError"]
  ELSE IF response.status = "404" THEN [release |-> NoRelease, err |-> "NoReleasesFound"]
  ELSE IF response.status # "200" THEN [release |-> NoRelease, err |-> "ErrNetworkError"]
  ELSE IF ~response.decodes THEN [release |-> NoRelease, err |-> "ParseReleaseFailed"]
  ELSE LET version == ParseVersion(response.tag_name)
       IN  [release |-> ReleaseInfo(response.tag_name,
                                    IF version.err = "" THEN String(version.v)
                                    ELSE response.tag_name),
            err |-> ""]

\* CheckForUpdate taking a version that does not parse for no update
CheckForUpdateLenient(currentVersion, response) ==
  LET latest == GetLatestRelease(response)
      currentVer == ParseVersion(currentVersion)
      latestVer == ParseVersion(latest.release.TagName)
  IN  IF latest.err # "" \/ currentVer.err # "" \/ latestVer.err # ""
      THEN [release |-> latest.release, hasUpdate |-> FALSE, err |-> ""]
      ELSE [release |-> latest.release,
            hasUpdate |-> IsNewerThan(latestVer.v, currentVer.v), err |-> ""]

\* Updater.CheckForUpdate: (release, hasUpdate, err)
CheckForUpdate(currentVersion, response) ==
  LET latest == GetLatestRelease(response)
      currentVer == ParseVersion(currentVersion)
      latestVer == ParseVersion(latest.release.TagName)
  IN  IF latest.err # ""
      THEN [release |-> NoRelease, hasUpdate |-> FALSE, err |-> latest.err]
      ELSE IF currentVer.err # ""
      THEN [release |-> latest.release, hasUpdate |-> FALSE,
            err |-> "current: ErrInvalidVersion"]
      ELSE IF latestVer.err # ""
      THEN [release |-> latest.release, hasUpdate |-> FALSE,
            err |-> "latest: ErrInvalidVersion"]
      ELSE [release |-> latest.release,
            hasUpdate |-> IsNewerThan(latestVer.v, currentVer.v), err |-> ""]

\* What the GitHub API answers to GET .../releases?per_page=20: the request
\* fails ("error") or has a status; a body that decodes carries the tag
\* names of the releases, newest first.
ListResponse(status, decodes, tags) == [status |-> status, decodes |-> decodes, tags |-> tags]

\* GetReleases: the releases and the error
GetReleases(response) ==
  IF response.status = "error" THEN [releases |-> <<>>, err |-> "ErrNetworkError"]
  ELSE IF response.status # "200" THEN [releases |-> <<>>, err |-> "ErrNetworkError"]
  ELSE IF ~response.decodes THEN [releases |-> <<>>, err |-> "ParseReleasesFailed"]
  ELSE [releases |->
          [i \in 1..Len(response.tags) |->
             LET version == ParseVersion(response.tags[i])
             IN  ReleaseInfo(response.tags[i],
                             IF version.err = "" THEN String(version.v)
                             ELSE response.tags[i])],
        err |-> ""]

\* the loop of GetChangelog leaving at the first tag that does not parse
RECURSIVE ChangelogStopAtBad(_, _)
ChangelogStopAtBad(releases, fromVer) ==
  IF releases = <<>> THEN <<>>
  ELSE LET release == Head(releases)
           releaseVer == ParseVersion(release.TagName)
       IN  IF releaseVer.err # "" THEN <<>>
           ELSE IF IsNewerThan(releaseVer.v, fromVer)
           THEN <<release>> \o ChangelogStopAtBad(Tail(releases), fromVer)
           ELSE ChangelogStopAtBad(Tail(releases), fromVer)

\* the loop of GetChangelog over the releases
RECURSIVE Changelog(_, _)
Changelog(releases, fromVer) ==
  IF releases = <<>> THEN <<>>
  ELSE LET release == Head(releases)
           releaseVer == ParseVersion(release.TagName)
       IN  IF releaseVer.err # "" THEN Changelog(Tail(releases), fromVer)
           ELSE IF IsNewerThan(releaseVer.v, fromVer)
           THEN <<release>> \o Changelog(Tail(releases), fromVer)
           ELSE Changelog(Tail(releases), fromVer)

\* Updater.GetChangelog: (changelog, err)
GetChangelog(fromVersion, response) ==
  LET fetched == GetReleases(response)
      fromVer == ParseVersion(fromVersion)
  IN  IF fetched.err # "" THEN [changelog |-> <<>>, err |-> fetched.err]
      ELSE IF fromVer.err # "" THEN [changelog |-> <<>>, err |-> "ErrInvalidVersion"]
      ELSE [changelog |-> Changelog(fetched.releases, fromVer.v), err |-> ""]

\* ------------------------------------------------------------- releases
\* what the release server serves at a download URL (an archive)
NoArchive == [format |-> "none", entries |-> <<>>, sha |-> ""]
PartialArchive == [format |-> "garbage", entries |-> <<>>, sha |-> "ef56"]

ArchiveFormat(os) == IF os = "windows" THEN "zip" ELSE "targz"
ExeName(os) == IF os = "windows" THEN <<DefaultBinaryName, ".exe">> ELSE <<DefaultBinaryName>>

ArchiveOf(os, format, data, sha) ==
  [format |-> format,
   entries |-> <<[name |-> <<<<"README.md">>>>, data |-> <<19>>],
                 [name |-> <<<<"ghex", "-", os>>, ExeName(os)>>, data |-> data]>>,
   sha |-> sha]

ServedArchive(url, os) ==
  CASE url = "good" -> ArchiveOf(os, ArchiveFormat(os), NewBinary, "ab12")
    [] url = "evil" -> ArchiveOf(os, ArchiveFormat(os), EvilBinary, "cd34")
    [] url = "alt"  -> ArchiveOf(os, "targz", NewBinary, "ab12")
    [] url = "docs" -> [format |-> ArchiveFormat(os),
                        entries |-> <<[name |-> <<<<"README.md">>>>, data |-> <<19>>]>>,
                        sha |-> "9a9a"]
    [] OTHER -> NoArchive

\* the text of a checksum manifest served at a download URL
ServedText(url, os) ==
  LET name == GetAssetName(os, GOARCH)
  IN  CASE url = "sums" ->
             << <<<<"#">>, <<"sha256">>>>,
                <<<<"9a9a">>, <<"notes.txt">>>>,
                <<<<"ab12">>, name>> >>
        [] url = "SUMS" ->
             << <<>>,
                <<<<"AB12">>>>,
                <<<<"AB12">>, <<"*">>, <<"dist", "/">> \o name>> >>
        [] url = "others" ->
             << <<<<"9a9a">>, <<"notes.txt">>>> >>
        [] OTHER -> <<>>

Asset(name, url) == [Name |-> name, DownloadURL |-> url]

ReleaseIds == {"plain", "verified", "upper", "tampered", "noentry", "altname",
               "foreign", "docsonly"}

\* the ReleaseInfo a release id stands for, on the given platform
Release(id, os) ==
  LET name == GetAssetName(os, GOARCH)
      sums == Asset(<<"checksums.txt">>, "sums")
  IN  [Assets |->
        CASE id = "plain"    -> <<Asset(name, "good")>>
          [] id = "verified" -> <<sums, Asset(name, "good")>>
          [] id = "upper"    -> <<Asset(name, "good"), Asset(<<"SHA256SUMS">>, "SUMS")>>
          [] id = "tampered" -> <<Asset(name, "evil"), sums>>
          [] id = "noentry"  -> <<Asset(<<"sha256sums.txt">>, "others"), Asset(name, "evil")>>
          [] id = "altname"  -> <<Asset(<<"ghex", "_", os, "_", GOARCH, ".tar.gz">>, "alt")>>
          [] id = "foreign"  -> <<Asset(GetAssetName("plan9", GOARCH), "good"), sums>>
          [] id = "docsonly" -> <<Asset(name, "docs")>>
          [] OTHER -> <<>>]

\* ------------------------------------------------------------- update.go
\* the entry extractBinary takes out of an archive file stored under the
\* asset's name: its index in the archive, or 0 (ErrExtractFailed)
extractBinary(archive, assetName, os) ==
  LET zip == HasSuffix(assetName, <<".zip">>)
      binaryName == ExeName(os)
      n == Len(archive.entries)
      base(i) == Last(archive.entries[i].name)
  IN  IF zip
      THEN IF archive.format # "zip" THEN 0
           ELSE FirstIndex([i \in 1..n |->
                  base(i) = binaryName \/ base(i) = <<DefaultBinaryName, ".exe">>], 1, n)
      ELSE IF archive.format # "targz" THEN 0
           ELSE FirstIndex([i \in 1..n |->
                  base(i) = binaryName \/ base(i) = <<DefaultBinaryName>>], 1, n)


\* ------------------------------------------------------------- state
VARIABLES
  frame,       \* the local state of a call in progress that takes more than one step
  call,        \* a call of a function of the package: its arguments and what it returned
  orig,        \* the bytes of the binary installed at first
  goos,        \* runtime.GOOS of the installation
  fs,          \* the files at BinaryPath, in the backup directory and at ScriptPath
  tmp,         \* per Update call: its temporary directory
  helpers,     \* per Update call: where its detached helper script is
  pc,          \* where the command-line process is ("idle": no process)
  cmd,         \* what the process runs: "update", "rollback", "roundtrip"
  rel,         \* the release handed to Update
  asset,       \* the index of the selected asset
  result,      \* what Update / Rollback returned
  replaceErr,  \* the error Replace returned to Update
  log,         \* the calls of the current process and their outcomes, in order
  attempts,    \* the number of Update calls so far
  binBusy,     \* the file at BinaryPath is the image of the running process
  cp,          \* the copyFile in progress: source, destination, offset
  ended,       \* how the last process ended
  bin0,        \* the file at BinaryPath when the process started
  bak0,        \* the backup file when the process started
  binAtBackup  \* the file at BinaryPath when Backup was last called

vars == <<frame, call, orig, goos, fs, tmp, helpers, pc, cmd, rel, asset, result, replaceErr, log,
          attempts, binBusy, cp, ended, bin0, bak0, binAtBackup>>

BinaryPath == "ghex"
ScriptPath == "ghex_update.bat"
TmpBinaryPath == "ghex-update-*/ghex"
BackupNames == {"ghex.backup", "ghex.exe.backup"}
Paths == {BinaryPath, ScriptPath} \cup BackupNames

getBackupPath == IF goos = "windows" THEN "ghex.exe.backup" ELSE "ghex.backup"

NoTmp == [exists |-> FALSE, archive |-> NoArchive, binary |-> NoFile]
NoCopy == [site |-> "", src |-> "", dst |-> "", off |-> 0]
NoCall == [fn |-> "none", args |-> <<>>, ret |-> <<>>, returned |-> FALSE]
NoFrame == [pc |-> "none"]

\* the file a path names; the extracted binary lives in the temporary
\* directory of the current Update call
ReadFile(path) == IF path = TmpBinaryPath THEN tmp[attempts].binary ELSE fs[path]

HasBackup == Exists(fs[getBackupPath])

\* A binary that can be started: complete and executable.
CompleteBinaries == {orig, NewBinary, EvilBinary}
Runnable(f) == Exists(f) /\ f.data \in CompleteBinaries /\ (goos = "windows" \/ f.mode \in ExecModes)

\* Opening the image of a running process for writing fails where the
\* operating system forbids it (ETXTBSY, sharing violation).
TextBusy(path) == path = BinaryPath /\ binBusy /\ goos \in {"linux", "windows"}

Logged(e) == \E i \in 1..Len(log) : log[i] = e
Count(e) == Cardinality({i \in 1..Len(log) : log[i] = e})

\* ------------------------------------------------------------- Init
Init ==
  /\ goos \in GOOSes
  /\ \E c \in Contents, m \in ExecModes, b \in {NoFile, File(<<18, 18, 18>>, ModeExec)} :
       fs = [p \in Paths |-> IF p = BinaryPath THEN File(c, m)
                             ELSE IF p = getBackupPath THEN b ELSE NoFile]
  /\ call = NoCall
  /\ frame = NoFrame
  /\ tmp = [n \in 1..MaxAttempts |-> NoTmp]
  /\ helpers = [n \in 1..MaxAttempts |-> "none"]
  /\ pc = "idle"
  /\ cmd = "none"
  /\ rel = "none"
  /\ asset = 0
  /\ result = "none"
  /\ replaceErr = "none"
  /\ log = <<>>
  /\ attempts = 0
  /\ binBusy = FALSE
  /\ cp = NoCopy
  /\ ended = "none"
  /\ bin0 = fs[BinaryPath]
  /\ orig = fs[BinaryPath].data
  /\ bak0 = NoFile
  /\ binAtBackup = NoFile

\* ------------------------------------------------------------- commands
\* `ghex update` (runUpdate up to the call of Update): the installed binary
\* is started and calls Update with a release that has an update.
RunUpdate ==
  /\ pc = "idle"
  /\ attempts < MaxAttempts
  /\ Runnable(fs[BinaryPath])
  /\ \E r \in ReleaseIds : rel' = r
  /\ cmd' = "update"
  /\ pc' = "CheckWritePermission"
  /\ attempts' = attempts + 1
  /\ binBusy' = TRUE
  /\ bin0' = fs[BinaryPath]
  /\ bak0' = fs[getBackupPath]
  /\ log' = <<>>
  /\ result' = "none"
  /\ replaceErr' = "none"
  /\ asset' = 0
  /\ ended' = "none"
  /\ binAtBackup' = NoFile
  /\ UNCHANGED <<frame, call, orig, goos, fs, tmp, helpers, cp>>

\* Update returns err: the deferred RemoveAll runs first when the temporary
\* directory was created in this call.
Return(err) ==
  /\ result' = err
  /\ pc' = IF tmp[attempts].exists THEN "DeferRemoveAll" ELSE "UpdateReturned"

\* Update noting the permission error and going on to select the asset
CheckWritePermissionUnchecked ==
  /\ pc = "CheckWritePermission"
  /\ log' = Append(log, "CheckWritePermission")
  /\ pc' = "SelectAsset"
  /\ \/ UNCHANGED result
     \/ result' = "ErrPermissionDenied"
  /\ UNCHANGED <<frame, call, orig, goos, fs, tmp, helpers, cmd, rel, asset, replaceErr, attempts,
                 binBusy, cp, ended, bin0, bak0, binAtBackup>>

\* update.go 73-75 and binary.go 219-231: os.CreateTemp in the directory of
\* the binary succeeds (the file is closed and removed again) or fails
CheckWritePermission ==
  /\ pc = "CheckWritePermission"
  /\ log' = Append(log, "CheckWritePermission")
  /\ \/ pc' = "SelectAsset" /\ UNCHANGED result
     \/ Return("ErrPermissionDenied")
  /\ UNCHANGED <<frame, call, orig, goos, fs, tmp, helpers, cmd, rel, asset, replaceErr, attempts,
                 binBusy, cp, ended, bin0, bak0, binAtBackup>>

SelectAsset ==
  /\ pc = "SelectAsset"
  /\ log' = Append(log, "SelectAsset")
  /\ LET i == SelectAssetForPlatform(Release(rel, goos), goos, GOARCH)
     IN  IF i = 0
         THEN Return("ErrAssetNotFound") /\ UNCHANGED asset
         ELSE asset' = i /\ pc' = "MkdirTemp" /\ UNCHANGED result
  /\ UNCHANGED <<frame, call, orig, goos, fs, tmp, helpers, cmd, rel, replaceErr, attempts,
                 binBusy, cp, ended, bin0, bak0, binAtBackup>>

MkdirTemp ==
  /\ pc = "MkdirTemp"
  /\ log' = Append(log, "MkdirTemp")
  /\ \/ /\ tmp' = [tmp EXCEPT ![attempts].exists = TRUE]
        /\ pc' = "DownloadAsset"
        /\ UNCHANGED result
     \/ /\ Return("MkdirTempFailed")
        /\ UNCHANGED tmp
  /\ UNCHANGED <<frame, call, orig, goos, fs, helpers, cmd, rel, asset, replaceErr, attempts,
                 binBusy, cp, ended, bin0, bak0, binAtBackup>>

SelectedAsset == Release(rel, goos).Assets[asset]

\* DownloadAsset writes the served bytes to the archive path; a failed
\* download leaves no file or a partial one.
DownloadAsset ==
  /\ pc = "DownloadAsset"
  /\ log' = Append(log, "DownloadAsset")
  /\ \/ /\ tmp' = [tmp EXCEPT ![attempts].archive =
                     ServedArchive(SelectedAsset.DownloadURL, goos)]
        /\ pc' = "DownloadChecksums"
        /\ UNCHANGED result
     \/ /\ \E a \in {NoArchive, PartialArchive} :
             tmp' = [tmp EXCEPT ![attempts].archive = a]
        /\ Return("ErrDownloadFailed")
  /\ UNCHANGED <<frame, call, orig, goos, fs, helpers, cmd, rel, asset, replaceErr, attempts,
                 binBusy, cp, ended, bin0, bak0, binAtBackup>>

\* the manifest entry the code verifies the archive against: its index among
\* the parsed entries of the text DownloadChecksums returned, or 0
ExpectedEntry(checksumContent) ==
  IF checksumContent = <<>> THEN 0
  ELSE FindChecksum(ParseChecksumFile(checksumContent), SelectedAsset.Name)

\* update.go 96-107: fetch the manifest, and verify when it has an entry
VerifyStep(fetched, readOk) ==
  LET m == ChecksumAsset(Release(rel, goos))
      checksumContent == IF m = 0 \/ ~fetched THEN <<>>
                         ELSE ServedText(Release(rel, goos).Assets[m].DownloadURL, goos)
      e == ExpectedEntry(checksumContent)
  IN  IF e = 0 THEN "skipped"
      ELSE VerifyChecksum(tmp[attempts].archive,
                          ParseChecksumFile(checksumContent)[e].Checksum, readOk)

DownloadChecksums ==
  /\ pc = "DownloadChecksums"
  /\ \E fetched \in BOOLEAN, readOk \in BOOLEAN :
       LET v == VerifyStep(fetched, readOk)
       IN  /\ log' = log \o <<"DownloadChecksums">> \o
                       (IF v = "skipped" THEN <<>> ELSE <<"VerifyChecksum">>)
           /\ IF v \in {"skipped", ""}
              THEN pc' = "extractBinary" /\ UNCHANGED result
              ELSE Return(v)
  /\ UNCHANGED <<frame, call, orig, goos, fs, tmp, helpers, cmd, rel, asset, replaceErr, attempts,
                 binBusy, cp, ended, bin0, bak0, binAtBackup>>

ExtractBinary ==
  /\ pc = "extractBinary"
  /\ log' = Append(log, "extractBinary")
  /\ LET a == tmp[attempts].archive
         i == extractBinary(a, SelectedAsset.Name, goos)
     IN  \/ /\ i # 0
            /\ tmp' = [tmp EXCEPT ![attempts].binary = File(a.entries[i].data, ModeCreate)]
            /\ pc' = "Backup"
            /\ UNCHANGED result
         \/ /\ Return("ErrExtractFailed")
            /\ UNCHANGED tmp
  /\ UNCHANGED <<frame, call, orig, goos, fs, helpers, cmd, rel, asset, replaceErr, attempts,
                 binBusy, cp, ended, bin0, bak0, binAtBackup>>


\* ------------------------------------------------------------- returns
\* Each operator below is the return of one call: it appends the outcome to
\* the log lg and continues in the caller.

\* Update returning the error of Restore when Restore failed
UpdateErrorOfRestore(replaceError, restoreError) ==
  IF restoreError # "" THEN restoreError ELSE replaceError

\* update.go 121-125: what Update returns when Replace failed with
\* replaceError and the Restore that followed returned restoreError
UpdateError(replaceError, restoreError) == replaceError

ReplaceReturn(lg, err) ==
  /\ log' = Append(lg, IF err = "" THEN "Replace:ok" ELSE "Replace:err")
  /\ IF err = ""
     THEN Return("") /\ UNCHANGED replaceErr
     ELSE replaceErr' = err /\ pc' = "Restore" /\ UNCHANGED result

\* Update going on to Replace whatever Backup returned
BackupReturnUnchecked(lg, err) ==
  /\ log' = Append(lg, IF err = "" THEN "Backup:ok" ELSE "Backup:err")
  /\ UNCHANGED <<replaceErr, result>>
  /\ pc' = IF cmd = "update" THEN "Replace" ELSE "Corrupt"

BackupReturn(lg, err) ==
  /\ log' = Append(lg, IF err = "" THEN "Backup:ok" ELSE "Backup:err")
  /\ UNCHANGED replaceErr
  /\ IF cmd = "update"
     THEN IF err = "" THEN pc' = "Replace" /\ UNCHANGED result ELSE Return(err)
     ELSE IF err = "" THEN pc' = "Corrupt" /\ UNCHANGED result
          ELSE pc' = "TestDone" /\ result' = err

RestoreReturn(lg, err) ==
  /\ log' = Append(lg, IF err = "" THEN "Restore:ok" ELSE "Restore:err")
  /\ UNCHANGED replaceErr
  /\ CASE cmd = "update" -> Return(UpdateError(replaceErr, err))
       [] cmd = "rollback" -> pc' = "RollbackReturned" /\ result' = err
       [] OTHER -> pc' = "TestDone" /\ result' = err

\* ------------------------------------------------------------- copyFile
\* OpenFile without O_TRUNC: an existing file keeps its bytes
OpenFileNoTrunc(f, srcMode) ==
  IF Exists(f) THEN f ELSE File(<<>>, srcMode)

\* binary.go 207: O_WRONLY|O_CREATE|O_TRUNC with the source's mode: an
\* existing file is emptied and keeps its mode, a new one gets srcMode
OpenFile(f, srcMode) ==
  IF Exists(f) THEN File(<<>>, f.mode) ELSE File(<<>>, srcMode)

WriteAt(data, i, b) == IF i <= Len(data) THEN [data EXCEPT ![i] = b] ELSE Append(data, b)

CopyReturn(ok) ==
  CASE cp.site = "Backup" ->
         BackupReturn(log, IF ok THEN "" ELSE "ErrBackupFailed")
    [] cp.site = "Restore" ->
         IF ok /\ goos # "windows"
         THEN pc' = "Restore.SetExecutable" /\ UNCHANGED <<result, replaceErr, log>>
         ELSE RestoreReturn(log, IF ok THEN "" ELSE "ErrRestoreFailed")
    [] OTHER ->
         IF ok
         THEN pc' = "Replace.SetExecutable" /\ UNCHANGED <<result, replaceErr, log>>
         ELSE ReplaceReturn(log, "ReplaceCopyFailed")

\* binary.go 194-211: open the source, stat it, open the destination
CopyFileOpen ==
  /\ pc = "copyFile"
  /\ \/ /\ Exists(ReadFile(cp.src))
        /\ ~TextBusy(cp.dst)
        /\ fs' = [fs EXCEPT ![cp.dst] = OpenFile(fs[cp.dst], ReadFile(cp.src).mode)]
        /\ pc' = "io.Copy"
        /\ UNCHANGED <<result, replaceErr, log, cp>>
     \/ /\ CopyReturn(FALSE)
        /\ cp' = NoCopy
        /\ UNCHANGED fs
  /\ UNCHANGED <<frame, call, orig, goos, tmp, helpers, cmd, rel, asset, attempts, binBusy, ended,
                 bin0, bak0, binAtBackup>>

\* binary.go 214: io.Copy, one chunk per step
IoCopy ==
  /\ pc = "io.Copy"
  /\ LET src == ReadFile(cp.src)
     IN  \/ /\ cp.off < Len(src.data)
            /\ fs' = [fs EXCEPT ![cp.dst].data = WriteAt(@, cp.off + 1, src.data[cp.off + 1])]
            /\ cp' = [cp EXCEPT !.off = @ + 1]
            /\ UNCHANGED <<pc, result, replaceErr, log>>
         \/ /\ cp.off < Len(src.data)
            /\ CopyReturn(FALSE)
            /\ cp' = NoCopy
            /\ UNCHANGED fs
         \/ /\ cp.off = Len(src.data)
            /\ CopyReturn(TRUE)
            /\ cp' = NoCopy
            /\ UNCHANGED fs
  /\ UNCHANGED <<frame, call, orig, goos, tmp, helpers, cmd, rel, asset, attempts, binBusy, ended,
                 bin0, bak0, binAtBackup>>

\* ------------------------------------------------------------- binary.go
\* Backup, 72-85
Backup ==
  /\ pc = "Backup"
  /\ binAtBackup' = fs[BinaryPath]
  /\ \/ /\ cp' = [site |-> "Backup", src |-> BinaryPath, dst |-> getBackupPath, off |-> 0]
        /\ pc' = "copyFile"
        /\ log' = Append(log, "Backup")
        /\ UNCHANGED <<result, replaceErr>>
     \/ /\ BackupReturn(Append(log, "Backup"), "ErrBackupFailed")
        /\ UNCHANGED cp
  /\ UNCHANGED <<frame, call, orig, goos, fs, tmp, helpers, cmd, rel, asset, attempts, binBusy, ended,
                 bin0, bak0>>

\* Replace on a Unix system, 127-131: remove the running binary
replaceUnix ==
  /\ pc = "Replace"
  /\ goos # "windows"
  /\ \/ /\ fs' = [fs EXCEPT ![BinaryPath] = NoFile]
        /\ binBusy' = FALSE
        /\ cp' = [site |-> "Replace", src |-> TmpBinaryPath, dst |-> BinaryPath, off |-> 0]
        /\ pc' = "copyFile"
        /\ log' = Append(log, "Replace")
        /\ UNCHANGED <<result, replaceErr>>
     \/ /\ ReplaceReturn(Append(log, "Replace"), "RemoveFailed")
        /\ UNCHANGED <<fs, binBusy, cp>>
  /\ UNCHANGED <<frame, call, orig, goos, tmp, helpers, cmd, rel, asset, attempts, ended,
                 bin0, bak0, binAtBackup>>

\* SetExecutable, 184-190
SetExecutable(f) == IF goos = "windows" THEN f ELSE File(f.data, ModeExec)

\* replaceUnix, 138-143
ReplaceSetExecutable ==
  /\ pc = "Replace.SetExecutable"
  /\ \/ /\ fs' = [fs EXCEPT ![BinaryPath] = SetExecutable(@)]
        /\ ReplaceReturn(log, "")
     \/ /\ ReplaceReturn(log, "SetPermissionsFailed")
        /\ UNCHANGED fs
  /\ UNCHANGED <<frame, call, orig, goos, tmp, helpers, cmd, rel, asset, attempts, binBusy, cp, ended,
                 bin0, bak0, binAtBackup>>

\* Replace on Windows, 150-171: write the helper script
replaceWindows ==
  /\ pc = "Replace"
  /\ goos = "windows"
  /\ \/ /\ fs' = [fs EXCEPT ![ScriptPath] = File(<<attempts>>, ModeExec)]
        /\ pc' = "Replace.Start"
        /\ log' = Append(log, "Replace")
        /\ UNCHANGED <<result, replaceErr>>
     \/ /\ ReplaceReturn(Append(log, "Replace"), "WriteScriptFailed")
        /\ UNCHANGED fs
  /\ UNCHANGED <<frame, call, orig, goos, tmp, helpers, cmd, rel, asset, attempts, binBusy, cp, ended,
                 bin0, bak0, binAtBackup>>

\* replaceWindows, 173-180: launch the script detached
ReplaceStart ==
  /\ pc = "Replace.Start"
  /\ \/ /\ helpers' = [helpers EXCEPT ![attempts] = "polling"]
        /\ ReplaceReturn(log, "")
        /\ UNCHANGED fs
     \/ /\ fs' = [fs EXCEPT ![ScriptPath] = NoFile]
        /\ ReplaceReturn(log, "LaunchScriptFailed")
        /\ UNCHANGED helpers
  /\ UNCHANGED <<frame, call, orig, goos, tmp, cmd, rel, asset, attempts, binBusy, cp, ended,
                 bin0, bak0, binAtBackup>>

\* Restore without the test for a backup
RestoreUnchecked ==
  /\ pc = "Restore"
  /\ cp' = [site |-> "Restore", src |-> getBackupPath, dst |-> BinaryPath, off |-> 0]
  /\ pc' = "copyFile"
  /\ log' = Append(log, "Restore")
  /\ UNCHANGED <<result, replaceErr>>
  /\ UNCHANGED <<frame, call, orig, goos, fs, tmp, helpers, cmd, rel, asset, attempts, binBusy, ended,
                 bin0, bak0, binAtBackup>>

\* Restore, 88-96
Restore ==
  /\ pc = "Restore"
  /\ IF ~HasBackup
     THEN RestoreReturn(Append(log, "Restore"), "ErrNoBackupAvailable") /\ UNCHANGED cp
     ELSE /\ cp' = [site |-> "Restore", src |-> getBackupPath, dst |-> BinaryPath, off |-> 0]
          /\ pc' = "copyFile"
          /\ log' = Append(log, "Restore")
          /\ UNCHANGED <<result, replaceErr>>
  /\ UNCHANGED <<frame, call, orig, goos, fs, tmp, helpers, cmd, rel, asset, attempts, binBusy, ended,
                 bin0, bak0, binAtBackup>>

\* Restore, 98-105, removing the backup once it is restored
RestoreSetExecutableConsuming ==
  /\ pc = "Restore.SetExecutable"
  /\ \/ /\ fs' = [fs EXCEPT ![BinaryPath] = SetExecutable(@), ![getBackupPath] = NoFile]
        /\ RestoreReturn(log, "")
     \/ /\ RestoreReturn(log, "ErrRestoreFailed")
        /\ UNCHANGED fs
  /\ UNCHANGED <<frame, call, orig, goos, tmp, helpers, cmd, rel, asset, attempts, binBusy, cp, ended,
                 bin0, bak0, binAtBackup>>

\* Restore, 98-105
RestoreSetExecutable ==
  /\ pc = "Restore.SetExecutable"
  /\ \/ /\ fs' = [fs EXCEPT ![BinaryPath] = SetExecutable(@)]
        /\ RestoreReturn(log, "")
     \/ /\ RestoreReturn(log, "ErrRestoreFailed")
        /\ UNCHANGED fs
  /\ UNCHANGED <<frame, call, orig, goos, tmp, helpers, cmd, rel, asset, attempts, binBusy, cp, ended,
                 bin0, bak0, binAtBackup>>


\* ------------------------------------------------------------- process
\* update.go 88: the deferred os.RemoveAll(tmpDir), run as Update returns
DeferRemoveAll ==
  /\ pc = "DeferRemoveAll"
  /\ tmp' = [tmp EXCEPT ![attempts] = NoTmp]
  /\ pc' = "UpdateReturned"
  /\ UNCHANGED <<frame, call, orig, goos, fs, helpers, cmd, rel, asset, result, replaceErr, log, attempts,
                 binBusy, cp, ended, bin0, bak0, binAtBackup>>

\* runUpdate / runRollback report the outcome and the process ends
ProcessExit ==
  /\ pc \in {"UpdateReturned", "RollbackReturned"}
  /\ pc' = "idle"
  /\ binBusy' = FALSE
  /\ ended' = "return"
  /\ UNCHANGED <<frame, call, orig, goos, fs, tmp, helpers, cmd, rel, asset, result, replaceErr, log,
                 attempts, cp, bin0, bak0, binAtBackup>>

\* root.go 56-65: on SIGINT / SIGTERM the handler goroutine calls
\* os.Exit(0); the process ends where it is and no deferred call runs
Interrupt ==
  /\ cmd \in {"update", "rollback"}
  /\ pc # "idle"
  /\ pc' = "idle"
  /\ binBusy' = FALSE
  /\ ended' = "interrupt"
  /\ cp' = NoCopy
  /\ UNCHANGED <<frame, call, orig, goos, fs, tmp, helpers, cmd, rel, asset, result, replaceErr, log,
                 attempts, bin0, bak0, binAtBackup>>

\* `ghex update --rollback`, update.go (commands) 114-124
RunRollback ==
  /\ pc = "idle"
  /\ Runnable(fs[BinaryPath])
  /\ cmd' = "rollback"
  /\ binBusy' = TRUE
  /\ bin0' = fs[BinaryPath]
  /\ bak0' = fs[getBackupPath]
  /\ log' = <<>>
  /\ replaceErr' = "none"
  /\ IF HasBackup
     THEN pc' = "Restore" /\ result' = "none"
     ELSE pc' = "RollbackReturned" /\ result' = "NoBackupForRollback"
  /\ rel' = "none"
  /\ asset' = 0
  /\ ended' = "none"
  /\ binAtBackup' = NoFile
  /\ UNCHANGED <<frame, call, orig, goos, fs, tmp, helpers, attempts, cp>>

\* ------------------------------------------------------------- helper script
\* binary.go 160-163: `move /y NEW_BINARY TARGET` succeeds when the new
\* binary is there and no running process holds the target
CanMove(n) == Exists(tmp[n].binary) /\ ~binBusy

HelperWait(n) ==
  /\ helpers[n] = "polling"
  /\ ~CanMove(n)
  /\ UNCHANGED vars

HelperMove(n) ==
  /\ helpers[n] = "polling"
  /\ CanMove(n)
  /\ fs' = [fs EXCEPT ![BinaryPath] = tmp[n].binary]
  /\ tmp' = [tmp EXCEPT ![n].binary = NoFile]
  /\ helpers' = [helpers EXCEPT ![n] = "moved"]
  /\ UNCHANGED <<frame, call, orig, goos, pc, cmd, rel, asset, result, replaceErr, log, attempts,
                 binBusy, cp, ended, bin0, bak0, binAtBackup>>

\* binary.go 165: del "%SCRIPT%"
HelperDel(n) ==
  /\ helpers[n] = "moved"
  /\ fs' = [fs EXCEPT ![ScriptPath] = NoFile]
  /\ helpers' = [helpers EXCEPT ![n] = "finished"]
  /\ UNCHANGED <<frame, call, orig, goos, tmp, pc, cmd, rel, asset, result, replaceErr, log, attempts,
                 binBusy, cp, ended, bin0, bak0, binAtBackup>>

Helper == \E n \in 1..MaxAttempts : HelperWait(n) \/ HelperMove(n) \/ HelperDel(n)

\* ------------------------------------------------------------- Spec
Update ==
  \/ CheckWritePermission
  \/ SelectAsset
  \/ MkdirTemp
  \/ DownloadAsset
  \/ DownloadChecksums
  \/ ExtractBinary
  \/ Backup
  \/ replaceUnix
  \/ replaceWindows
  \/ ReplaceStart
  \/ ReplaceSetExecutable
  \/ CopyFileOpen
  \/ IoCopy
  \/ Restore
  \/ RestoreSetExecutable
  \/ DeferRemoveAll

Next ==
  \/ RunUpdate
  \/ RunRollback
  \/ Update
  \/ ProcessExit
  \/ Interrupt
  \/ Helper

Spec == Init /\ [][Next]_vars

\* One installation on which only `ghex update` is run.  The process and
\* the helper script each keep running once started; the interrupt is an
\* input and gets no fairness.
NextUpdate ==
  \/ RunUpdate
  \/ Update
  \/ ProcessExit
  \/ Interrupt
  \/ Helper

FairSpec ==
  /\ Init /\ [][NextUpdate]_vars
  /\ WF_vars(Update \/ ProcessExit)
  /\ \A n \in 1..MaxAttempts : SF_vars(HelperMove(n)) /\ WF_vars(HelperDel(n))

\* ------------------------------------------------------------- round trip
\* Backup, then the file at BinaryPath is corrupted or deleted, then
\* Restore: a BinaryManager on a file that no process runs.
InitRT ==
  /\ goos \in GOOSes
  /\ \E c \in Contents, m \in Modes, b \in {NoFile} \cup {File(<<18, 18, 18>>, k) : k \in Modes} :
       fs = [p \in Paths |-> IF p = BinaryPath THEN File(c, m)
                             ELSE IF p = getBackupPath THEN b ELSE NoFile]
  /\ call = NoCall
  /\ frame = NoFrame
  /\ tmp = [n \in 1..MaxAttempts |-> NoTmp]
  /\ helpers = [n \in 1..MaxAttempts |-> "none"]
  /\ pc = "Backup"
  /\ cmd = "roundtrip"
  /\ rel = "none"
  /\ asset = 0
  /\ result = "none"
  /\ replaceErr = "none"
  /\ log = <<>>
  /\ attempts = 0
  /\ binBusy = FALSE
  /\ cp = NoCopy
  /\ ended = "none"
  /\ bin0 = fs[BinaryPath]
  /\ orig = fs[BinaryPath].data
  /\ bak0 = fs[getBackupPath]
  /\ binAtBackup = NoFile

Corrupt ==
  /\ pc = "Corrupt"
  /\ \/ fs' = [fs EXCEPT ![BinaryPath] = NoFile]
     \/ \E d \in {<<>>, <<19>>, <<19, 19, 19>>} : fs' = [fs EXCEPT ![BinaryPath].data = d]
  /\ pc' = "Restore"
  /\ UNCHANGED <<frame, call, orig, goos, tmp, helpers, cmd, rel, asset, result, replaceErr, log, attempts,
                 binBusy, cp, ended, bin0, bak0, binAtBackup>>

NextRT ==
  \/ Backup
  \/ CopyFileOpen
  \/ IoCopy
  \/ Corrupt
  \/ Restore
  \/ RestoreSetExecutable

SpecRT == InitRT /\ [][NextRT]_vars

\* ------------------------------------------------------------- rollback
\* Updater.Rollback called on its own (update.go 235-237): Restore on an
\* installation with or without a backup, from the installed binary or not.
InitRollback ==
  /\ goos \in GOOSes
  /\ \E c \in Contents, m \in Modes, b \in {NoFile} \cup {File(<<18, 18, 18>>, k) : k \in Modes} :
       fs = [p \in Paths |-> IF p = BinaryPath THEN File(c, m)
                             ELSE IF p = getBackupPath THEN b ELSE NoFile]
  /\ call = NoCall
  /\ frame = NoFrame
  /\ tmp = [n \in 1..MaxAttempts |-> NoTmp]
  /\ helpers = [n \in 1..MaxAttempts |-> "none"]
  /\ pc = "Restore"
  /\ cmd = "rollback"
  /\ rel = "none"
  /\ asset = 0
  /\ result = "none"
  /\ replaceErr = "none"
  /\ log = <<>>
  /\ attempts = 0
  /\ binBusy \in BOOLEAN
  /\ cp = NoCopy
  /\ ended = "none"
  /\ bin0 = fs[BinaryPath]
  /\ orig = fs[BinaryPath].data
  /\ bak0 = fs[getBackupPath]
  /\ binAtBackup = NoFile

NextRollback ==
  \/ Restore
  \/ CopyFileOpen
  \/ IoCopy
  \/ RestoreSetExecutable

SpecRollback == InitRollback /\ [][NextRollback]_vars


\* ------------------------------------------------------------- calls
\* A function of the package called on its own, on an installation on which
\* no command runs: the arguments are drawn at the start, the call returns
\* in one step.
Call(fn, args) == [fn |-> fn, args |-> args, ret |-> <<>>, returned |-> FALSE]

installation == <<orig, goos, fs, tmp, helpers, pc, cmd, rel, asset, result, replaceErr,
                  log, attempts, binBusy, cp, ended, bin0, bak0, binAtBackup>>

InitCall(c) ==
  /\ call = c
  /\ frame = NoFrame
  /\ goos = "linux"
  /\ \E b \in {NoFile, File(<<18, 18, 18>>, ModeExec)} :
       fs = [p \in Paths |-> IF p = BinaryPath THEN File(<<1>>, ModeExec)
                             ELSE IF p = getBackupPath THEN b ELSE NoFile]
  /\ tmp = [n \in 1..MaxAttempts |-> NoTmp]
  /\ helpers = [n \in 1..MaxAttempts |-> "none"]
  /\ pc = "idle"
  /\ cmd = "none"
  /\ rel = "none"
  /\ asset = 0
  /\ result = "none"
  /\ replaceErr = "none"
  /\ log = <<>>
  /\ attempts = 0
  /\ binBusy = FALSE
  /\ cp = NoCopy
  /\ ended = "none"
  /\ bin0 = fs[BinaryPath]
  /\ orig = fs[BinaryPath].data
  /\ bak0 = fs[getBackupPath]
  /\ binAtBackup = NoFile

CallReturns(fn, ret) ==
  /\ call.fn = fn
  /\ ~call.returned
  /\ call' = [call EXCEPT !.ret = ret, !.returned = TRUE]
  /\ UNCHANGED <<frame, installation>>

Returns(fn) == call.fn = fn /\ call.returned

\* -- the version texts
Triples == [1..3 -> 0..MaxNum]
ComparePres == {<<>>, <<"a">>, <<"a", "b">>, <<"b">>,
                <<"r", "c", ".", "1", "0">>, <<"r", "c", ".", "2">>}
Versions == {Version(t[1], t[2], t[3], p) : t \in Triples, p \in ComparePres}

NumTexts == UNION {[1..n -> {"0", "1"}] : n \in 1..MaxDigits}
Suffixes == {<<>>, <<"-", "a">>, <<"-", "r", "c", ".", "1">>, <<"-", "a", "-", "b">>,
             <<"-", " ", "a">>, <<"-">>, <<"-", "a", "\n", "b">>, <<"+", "a">>, <<".", "0">>}
Pads == {<<<<>>, <<>>>>, <<<<" ">>, <<"\r", "\n">>>>}
Malformed == {<<>>, <<"x">>, <<"1", ".", "0">>, <<"V", "1", ".", "0", ".", "0">>,
              <<"v">>, <<"1", ".", ".", "0">>, <<"v", "v", "1", ".", "0", ".", "0">>,
              <<"1", ".", "0", ".", "x">>, <<"1", ".", " ", "0", ".", "0">>}
VersionTexts ==
  {pad[1] \o v \o a \o <<".">> \o b \o <<".">> \o c \o suffix \o pad[2] :
     pad \in Pads, v \in {<<>>, <<"v">>}, a \in NumTexts, b \in NumTexts, c \in NumTexts,
     suffix \in Suffixes}
  \cup Malformed

CurrentVersions ==
  {String(Version(t[1], t[2], t[3], p)) : t \in Triples, p \in {<<>>, <<"a">>}}
  \cup {<<"x">>}
TagNames ==
  {v \o String(Version(t[1], t[2], t[3], p)) :
     v \in {<<>>, <<"v">>}, t \in Triples, p \in {<<>>, <<"a">>, <<"b">>}}
  \cup {<<>>, <<"x">>, <<"v", "1", ".", "0">>}
Responses ==
  {Response(st, FALSE, <<>>) : st \in {"error", "404", "500", "200"}}
  \cup {Response("200", TRUE, tag) : tag \in TagNames}

\* -- CheckForUpdate
InitCheck ==
  \E currentVersion \in CurrentVersions, response \in Responses :
    InitCall(Call("CheckForUpdate", <<currentVersion, response>>))

CheckForUpdateCall ==
  CallReturns("CheckForUpdate", CheckForUpdate(call.args[1], call.args[2]))

SpecCheck == InitCheck /\ [][CheckForUpdateCall]_vars

\* -- Compare
InitCompare ==
  \E v \in Versions, other \in Versions : InitCall(Call("Compare", <<v, other>>))

CompareCall == CallReturns("Compare", Compare(call.args[1], call.args[2]))

SpecCompare == InitCompare /\ [][CompareCall]_vars

\* -- ParseVersion and String
InitParse == \E v \in VersionTexts : InitCall(Call("ParseVersion", <<v>>))

\* ParseVersion(v), and on success String() of the version and
\* ParseVersion of that string
ParseStringParse(v) ==
  LET parsed == ParseVersion(v)
  IN  IF parsed.err # "" THEN [parsed |-> parsed, string |-> <<>>, again |-> parsed]
      ELSE [parsed |-> parsed, string |-> String(parsed.v),
            again |-> ParseVersion(String(parsed.v))]

ParseVersionCall == CallReturns("ParseVersion", ParseStringParse(call.args[1]))

SpecParse == InitParse /\ [][ParseVersionCall]_vars

\* -- VerifyChecksum
Digests == {"ab12", "AB12", "cd34", "CD34", "9a9a", "ef56"}
ExpectedChecksums ==
  {l \o <<d>> \o r : l \in {<<>>, <<" ">>}, d \in Digests, r \in {<<>>, <<"\n">>}}
  \cup {<<>>, <<"invalid">>}
ChecksumFiles == {ServedArchive(url, "linux") : url \in {"good", "evil", "docs"}}
                 \cup {PartialArchive}

InitVerify ==
  \E file \in ChecksumFiles, expectedChecksum \in ExpectedChecksums, readOk \in BOOLEAN :
    InitCall(Call("VerifyChecksum", <<file, expectedChecksum, readOk>>))

VerifyChecksumCall ==
  CallReturns("VerifyChecksum", VerifyChecksum(call.args[1], call.args[2], call.args[3]))

SpecVerify == InitVerify /\ [][VerifyChecksumCall]_vars

\* -- lists
RECURSIVE SeqsUpTo(_, _)
\* the sequences of at most n elements of S
SeqsUpTo(S, n) ==
  IF n = 0 THEN {<<>>}
  ELSE LET shorter == SeqsUpTo(S, n - 1)
       IN  shorter \cup {Append(s, x) : s \in shorter, x \in S}

\* -- FindChecksum
ManifestNames == {<<"x">>, <<"d", "/", "x">>, <<"y">>, <<"d", "/", "x", "y">>}
ChecksumEntries == [Checksum : {<<"ab12">>, <<"cd34">>}, Filename : ManifestNames]

InitFind ==
  \E entries \in SeqsUpTo(ChecksumEntries, MaxList), filename \in {<<"x">>, <<"y">>} :
    InitCall(Call("FindChecksum", <<entries, filename>>))

\* FindChecksum's two results: the checksum and found
FindChecksumResult(entries, filename) ==
  LET i == FindChecksum(entries, filename)
  IN  IF i = 0 THEN [hex |-> <<>>, found |-> FALSE]
      ELSE [hex |-> entries[i].Checksum, found |-> TRUE]

FindChecksumCall ==
  CallReturns("FindChecksum", FindChecksumResult(call.args[1], call.args[2]))

SpecFind == InitFind /\ [][FindChecksumCall]_vars

\* -- SelectAssetForPlatform
AssetNames(os) ==
  {GetAssetName(os, GOARCH),
   <<"ghex", "_", os, "_", GOARCH, ".tar.gz">>,
   <<"ghex", "-", os, "-", GOARCH, ".tgz">>,
   <<"ghex", "-", os, "-", GOARCH>>,
   GetAssetName("darwin", GOARCH),
   <<"checksums.txt">>}

InitSelect ==
  \E os \in {"linux", "windows"} :
    \E names \in SeqsUpTo(AssetNames(os), MaxList) :
      InitCall(Call("SelectAssetForPlatform",
                    <<[Assets |-> [i \in 1..Len(names) |-> Asset(names[i], "good")]],
                      os, GOARCH>>))

SelectAssetForPlatformCall ==
  CallReturns("SelectAssetForPlatform",
              SelectAssetForPlatform(call.args[1], call.args[2], call.args[3]))

SpecSelect == InitSelect /\ [][SelectAssetForPlatformCall]_vars

\* -- GetChangelog
ChangelogTags ==
  {<<"v">> \o String(Version(1, 0, 0, <<>>)), String(Version(1, 1, 0, <<>>)),
   <<"v">> \o String(Version(1, 1, 0, <<"a">>)), <<"v">> \o String(Version(0, 1, 0, <<>>)),
   <<"x">>, <<"v", "1", ".", "0">>}
FromVersions ==
  {String(Version(1, 0, 0, <<>>)), <<"v">> \o String(Version(0, 1, 0, <<>>)),
   String(Version(1, 1, 0, <<"a">>)), <<"x">>}
ListResponses ==
  {ListResponse(st, FALSE, <<>>) : st \in {"error", "404", "500", "200"}}
  \cup {ListResponse("200", TRUE, tags) : tags \in SeqsUpTo(ChangelogTags, MaxList)}

InitChangelog ==
  \E fromVersion \in FromVersions, response \in ListResponses :
    InitCall(Call("GetChangelog", <<fromVersion, response>>))

GetChangelogCall ==
  CallReturns("GetChangelog", GetChangelog(call.args[1], call.args[2]))

SpecChangelog == InitChangelog /\ [][GetChangelogCall]_vars

\* ------------------------------------------------------------- DownloadAsset
\* GitHubClient.DownloadAsset called on its own: the response has a status,
\* a ContentLength (-1 when the server does not tell it) and a body, of
\* which only the length matters; progress is the callback or nil.  io.Copy
\* is a loop of Read and Write; a Read of the body returns some of the
\* bytes left, with io.EOF at or after the last of them, or fails.
DownloadStatuses == {"error", "404", "200"}
BodyLengths(ContentLength) == IF ContentLength >= 0 THEN {ContentLength} ELSE 0..MaxBody

InitDownload ==
  \E status \in DownloadStatuses, ContentLength \in (-1)..MaxBody, progress \in {"nil", "set"} :
    \E body \in BodyLengths(ContentLength) :
      InitCall(Call("DownloadAsset", <<status, ContentLength, body, progress>>))

DownloadReturn(f, err) ==
  /\ call' = [call EXCEPT !.ret = err, !.returned = TRUE]
  /\ frame' = [f EXCEPT !.pc = "returned"]

\* the test that puts a progressReader around the body
UseProgressReader(progress, ContentLength) == progress # "nil" /\ ContentLength > 0

\* progressReader.Read reporting the bytes of the last Read
ProgressOfChunk(current, n) == n

\* pr.current += int64(n)
Progress(current, n) == current + n

\* the request, the status test, os.Create and the choice of the reader
DownloadAssetDo ==
  /\ call.fn = "DownloadAsset"
  /\ ~call.returned
  /\ frame.pc = "none"
  /\ LET f == [pc |-> "Read",
                reader |-> IF UseProgressReader(call.args[4], call.args[2])
                           THEN "progressReader" ELSE "Body",
                total |-> call.args[2], current |-> 0, left |-> call.args[3],
                n |-> 0, err |-> "", reads |-> <<>>, calls |-> <<>>, written |-> 0]
     IN  IF call.args[1] # "200" THEN DownloadReturn(frame, "ErrDownloadFailed")
         ELSE \E created \in BOOLEAN :
                IF created THEN frame' = f /\ UNCHANGED call
                ELSE DownloadReturn(frame, "ErrDownloadFailed")
  /\ UNCHANGED installation

\* reader.Read(p): n bytes and an error
ReadOutcomes(left) ==
  {[n |-> n, err |-> ""] : n \in 1..left}
  \cup {[n |-> left, err |-> "EOF"]}
  \cup {[n |-> n, err |-> "unexpected EOF"] : n \in 0..(left - 1)}

\* one Read of io.Copy: of the body, and within a progressReader the
\* addition to current
Read ==
  /\ frame.pc = "Read"
  /\ \E r \in ReadOutcomes(frame.left) :
       frame' = [frame EXCEPT
                   !.n = r.n, !.err = r.err, !.left = @ - r.n,
                   !.reads = Append(@, r.n),
                   !.current = IF frame.reader = "progressReader"
                               THEN Progress(@, r.n) ELSE @,
                   !.pc = IF frame.reader = "progressReader" THEN "callback" ELSE "Write"]
  /\ UNCHANGED <<call, installation>>

\* pr.callback(pr.current, pr.total), before Read returns
ProgressCallback ==
  /\ frame.pc = "callback"
  /\ frame' = [frame EXCEPT !.calls = Append(@, <<frame.current, frame.total>>),
                            !.pc = "Write"]
  /\ UNCHANGED <<call, installation>>

\* the rest of one round of io.Copy: the bytes read are written, then the
\* error of the Read is looked at
CopyWrite ==
  /\ frame.pc = "Write"
  /\ \E wrote \in BOOLEAN :
       IF frame.n > 0 /\ ~wrote THEN DownloadReturn(frame, "ErrDownloadFailed")
       ELSE LET f == [frame EXCEPT !.written = @ + frame.n]
            IN  IF frame.err = "EOF" THEN DownloadReturn(f, "")
                ELSE IF frame.err # "" THEN DownloadReturn(f, "ErrDownloadFailed")
                ELSE frame' = [f EXCEPT !.pc = "Read"] /\ UNCHANGED call
  /\ UNCHANGED installation

NextDownload == DownloadAssetDo \/ Read \/ ProgressCallback \/ CopyWrite

SpecDownload == InitDownload /\ [][NextDownload]_vars

\* ------------------------------------------------------------- download.go
\* download.FromURL called on its own.  A request ends with a transport
\* error (0) or a response with a status code.
DefaultRetries == 3

effectiveRetries(Retries) == IF Retries <= 0 THEN DefaultRetries ELSE Retries

Outcomes == {0, 200, 403, 404, 429, 500, 503}

\* a loop that asks again after every response that is not a success
RetryableUnlessOK(outcome) == outcome # 200

\* the outcomes after which the loop asks again: err != nil, 429, >= 500
Retryable(outcome) == outcome = 0 \/ outcome = 429 \/ outcome >= 500

InitFromURL ==
  \E rawURL \in {"https://", "ftp://"}, Retries \in (-1)..MaxRetries :
    InitCall([Call("FromURL", <<rawURL, Retries>>) EXCEPT !.ret = "none"])

FromURLReturn(f, err) ==
  /\ call' = [call EXCEPT !.ret = err, !.returned = TRUE]
  /\ frame' = [f EXCEPT !.pc = "returned"]

\* 252-279: the test of the URL, the client, the request, maxRetries
FromURLBegin ==
  /\ call.fn = "FromURL"
  /\ ~call.returned
  /\ frame.pc = "none"
  /\ IF call.args[1] = "ftp://" THEN FromURLReturn(frame, "invalid URL")
     ELSE /\ frame' = [pc |-> "Do", attempt |-> 0,
                       maxRetries |-> effectiveRetries(call.args[2]), outcomes |-> <<>>]
          /\ UNCHANGED call
  /\ UNCHANGED installation

\* 296-314: one request of the loop and what the loop does with its outcome;
\* the back-off and the new request of the next round come with `continue`
ClientDo ==
  /\ call.fn = "FromURL"
  /\ frame.pc = "Do"
  /\ \E outcome \in Outcomes :
       LET f == [frame EXCEPT !.outcomes = Append(@, outcome)]
       IN  IF Retryable(outcome)
           THEN IF frame.attempt < frame.maxRetries
                THEN frame' = [f EXCEPT !.attempt = @ + 1] /\ UNCHANGED call
                ELSE FromURLReturn(f, IF outcome = 0 THEN "failed to fetch URL" ELSE "ErrHTTP")
           ELSE frame' = [f EXCEPT !.pc = "Response"] /\ UNCHANGED call
  /\ UNCHANGED installation

\* 316-323 and the rest of FromURL: the status of the response, then the
\* body is saved, which succeeds or fails
FromURLResponse ==
  /\ call.fn = "FromURL"
  /\ frame.pc = "Response"
  /\ LET status == Last(frame.outcomes)
     IN  IF status = 404 THEN FromURLReturn(frame, "ErrNotFound")
         ELSE IF status # 200 THEN FromURLReturn(frame, "ErrHTTP")
         ELSE \E err \in {"", "save failed"} : FromURLReturn(frame, err)
  /\ UNCHANGED installation

NextFromURL == FromURLBegin \/ ClientDo \/ FromURLResponse

\* The call keeps running: the client has a timeout and the back-off ends.
SpecFromURL == InitFromURL /\ [][NextFromURL]_vars /\ WF_vars(NextFromURL)

\* -- Multiple
\* download.Multiple called on its own with a list of n URLs.  The goroutine
\* of URL k is at "none" (not started), "go" (started, before sem <-),
\* "FromURL" (in FromURL, a token in sem), "deferred" (FromURL has returned
\* and results[k] is set), "Done" (token taken back, before wg.Done()) or
\* "exit"; failed tells whether some result holds an error.
maxParallel == 5

InitMultiple == \E n \in 0..MaxUrls : InitCall(Call("Multiple", <<n>>))

\* a send on sem that never blocks
SendUnbounded(sem) == TRUE

\* sem <- struct{}{} can proceed: the channel's buffer is not full
Send(sem) == sem < maxParallel

\* 427: results, sem and wg are made
MultipleBegin ==
  /\ call.fn = "Multiple"
  /\ ~call.returned
  /\ frame.pc = "none"
  /\ frame' = [pc |-> "range", g |-> [k \in 1..call.args[1] |-> "none"],
               sem |-> 0, wg |-> 0, failed |-> FALSE]
  /\ UNCHANGED <<call, installation>>

\* 431-433: wg.Add(1) and the go statement for the next URL
Go ==
  /\ call.fn = "Multiple"
  /\ frame.pc = "range"
  /\ LET started == {k \in DOMAIN frame.g : frame.g[k] # "none"}
         k == Cardinality(started) + 1
     IN  IF k <= call.args[1]
         THEN frame' = [frame EXCEPT !.g[k] = "go", !.wg = @ + 1]
         ELSE frame' = [frame EXCEPT !.pc = "Wait"]
  /\ UNCHANGED <<call, installation>>

\* 434-441: the steps of the goroutine of URL k
Goroutine(k) ==
  /\ call.fn = "Multiple"
  /\ frame.pc \in {"range", "Wait"}
  /\ \/ /\ frame.g[k] = "go"
        /\ Send(frame.sem)
        /\ frame' = [frame EXCEPT !.g[k] = "FromURL", !.sem = @ + 1]
     \/ /\ frame.g[k] = "FromURL"
        /\ \E err \in BOOLEAN :
             frame' = [frame EXCEPT !.g[k] = "deferred", !.failed = @ \/ err]
     \/ /\ frame.g[k] = "deferred"
        /\ frame' = [frame EXCEPT !.g[k] = "Done", !.sem = @ - 1]
     \/ /\ frame.g[k] = "Done"
        /\ frame' = [frame EXCEPT !.g[k] = "exit", !.wg = @ - 1]
  /\ UNCHANGED <<call, installation>>

\* 444-460: wg.Wait() returns when the counter is 0; the summary
Wait ==
  /\ call.fn = "Multiple"
  /\ frame.pc = "Wait"
  /\ frame.wg = 0
  /\ call' = [call EXCEPT !.ret = IF frame.failed THEN "some downloads failed" ELSE "",
                          !.returned = TRUE]
  /\ frame' = [frame EXCEPT !.pc = "returned"]
  /\ UNCHANGED installation

NextMultiple ==
  \/ MultipleBegin
  \/ Go
  \/ \E k \in 1..MaxUrls : k <= call.args[1] /\ Goroutine(k)
  \/ Wait

SpecMultiple == InitMultiple /\ [][NextMultiple]_vars

\* ------------------------------------------------------------- two updates
\* `ghex update` started twice on one installation of a Unix-like system,
\* from Backup on: two processes of the installed binary, each with its own
\* temporary directory and extracted binary, and nothing that keeps one from
\* running while the other does.  What they share is the directory and the
\* files, so files are inodes here: dir gives the inode a path names (0: no
\* such file), ino the inodes made so far; a process that has opened a file
\* holds the inode, whatever the path names later.  overlapped tells whether
\* one process started before the other had returned.
Procs == {1, 2}
Other(i) == 3 - i
NewOf(i) == IF i = 1 THEN NewBinary ELSE EvilBinary

NoProc == [pc |-> "idle", site |-> "", src |-> 0, dst |-> 0, off |-> 0, err |-> "",
           result |-> "none"]

InitTwo ==
  /\ goos \in {"linux", "darwin"}
  /\ \E c \in Contents, b \in {NoFile, File(<<18, 18, 18>>, ModeExec)} :
       /\ fs = [p \in Paths |-> IF p = BinaryPath THEN File(c, ModeExec)
                                ELSE IF p = getBackupPath THEN b ELSE NoFile]
       /\ frame = [pc |-> "Update",
                   dir |-> [bin |-> 1, bak |-> IF Exists(b) THEN 2 ELSE 0],
                   ino |-> IF Exists(b) THEN <<File(c, ModeExec), b>> ELSE <<File(c, ModeExec)>>,
                   p |-> [i \in Procs |-> NoProc],
                   overlapped |-> FALSE]
  /\ call = Call("Update", <<>>)
  /\ tmp = [n \in 1..MaxAttempts |-> NoTmp]
  /\ helpers = [n \in 1..MaxAttempts |-> "none"]
  /\ pc = "idle"
  /\ cmd = "none"
  /\ rel = "none"
  /\ asset = 0
  /\ result = "none"
  /\ replaceErr = "none"
  /\ log = <<>>
  /\ attempts = 0
  /\ binBusy = TRUE
  /\ cp = NoCopy
  /\ ended = "none"
  /\ bin0 = fs[BinaryPath]
  /\ orig = fs[BinaryPath].data
  /\ bak0 = fs[getBackupPath]
  /\ binAtBackup = NoFile

\* inode 1 is the image of both processes: where the system forbids it, it
\* cannot be opened for writing
ImageBusy(id) == id = 1 /\ goos = "linux"

RECURSIVE Zeros(_)
Zeros(n) == IF n <= 0 THEN <<>> ELSE <<0>> \o Zeros(n - 1)

\* a write of byte b at offset off of a file: past the end it leaves a hole
Pwrite(data, off, b) ==
  IF off < Len(data) THEN [data EXCEPT ![off + 1] = b]
  ELSE data \o Zeros(off - Len(data)) \o <<b>>

\* os.OpenFile(path, O_WRONLY|O_CREATE|O_TRUNC, mode) by process i: the
\* frame with the inode in dst, a new one if the path names none
OpenTrunc(f, i, path, mode) ==
  IF f.dir[path] = 0
  THEN [f EXCEPT !.ino = Append(@, File(<<>>, mode)),
                 !.dir[path] = Len(f.ino) + 1,
                 !.p[i].dst = Len(f.ino) + 1]
  ELSE [f EXCEPT !.ino[f.dir[path]].data = <<>>,
                 !.p[i].dst = f.dir[path]]

CanOpenTrunc(f, path) == ~ImageBusy(f.dir[path])

\* what process i reads: its extracted binary (src 0) or an inode
SrcData(f, i) == IF f.p[i].src = 0 THEN NewOf(i) ELSE f.ino[f.p[i].src].data

\* Update returns err
UpdateReturn(f, i, err) == [f EXCEPT !.p[i].pc = "returned", !.p[i].result = err]

\* Replace has failed with err: Update goes on to Restore
ReplaceFailed(f, i, err) == [f EXCEPT !.p[i].pc = "Restore", !.p[i].err = err]

\* the process is started and Update reaches Backup
UpdateStart(i) ==
  /\ frame.pc = "Update"
  /\ frame.p[i].pc = "idle"
  /\ frame' = [frame EXCEPT
                 !.p[i].pc = "Backup",
                 !.overlapped = @ \/ frame.p[Other(i)].pc \notin {"idle", "returned"}]
  /\ UNCHANGED <<call, installation>>

\* Backup, binary.go 72-79, and copyFile 194-211: the binary and the backup
\* are opened
BackupOpen(i) ==
  /\ frame.pc = "Update"
  /\ frame.p[i].pc = "Backup"
  /\ \/ /\ frame.dir.bin # 0
        /\ frame' = [OpenTrunc(frame, i, "bak", frame.ino[frame.dir.bin].mode) EXCEPT
                       !.p[i].pc = "io.Copy", !.p[i].site = "Backup",
                       !.p[i].src = frame.dir.bin, !.p[i].off = 0]
     \/ frame' = UpdateReturn(frame, i, "ErrBackupFailed")
  /\ UNCHANGED <<call, installation>>

\* replaceUnix without os.Remove
RemoveBinaryKeeping(i) ==
  /\ frame.pc = "Update"
  /\ frame.p[i].pc = "Replace"
  /\ \/ /\ frame.dir.bin # 0
        /\ frame' = [frame EXCEPT !.p[i].pc = "Replace.copyFile"]
     \/ frame' = ReplaceFailed(frame, i, "RemoveFailed")
  /\ UNCHANGED <<call, installation>>

\* replaceUnix, binary.go 127-131: os.Remove of the binary
RemoveBinary(i) ==
  /\ frame.pc = "Update"
  /\ frame.p[i].pc = "Replace"
  /\ \/ /\ frame.dir.bin # 0
        /\ frame' = [frame EXCEPT !.dir.bin = 0, !.p[i].pc = "Replace.copyFile"]
     \/ frame' = ReplaceFailed(frame, i, "RemoveFailed")
  /\ UNCHANGED <<call, installation>>

\* replaceUnix, 133-136, and copyFile 194-211: the extracted binary and the
\* binary path are opened
ReplaceOpen(i) ==
  /\ frame.pc = "Update"
  /\ frame.p[i].pc = "Replace.copyFile"
  /\ \/ /\ CanOpenTrunc(frame, "bin")
        /\ frame' = [OpenTrunc(frame, i, "bin", ModeCreate) EXCEPT
                       !.p[i].pc = "io.Copy", !.p[i].site = "Replace",
                       !.p[i].src = 0, !.p[i].off = 0]
     \/ frame' = ReplaceFailed(frame, i, "ReplaceCopyFailed")
  /\ UNCHANGED <<call, installation>>

\* copyFile, 214: one chunk of io.Copy, its failure, or its end
CopyStep(i) ==
  /\ frame.pc = "Update"
  /\ frame.p[i].pc = "io.Copy"
  /\ LET me == frame.p[i]
         data == SrcData(frame, i)
     IN  \/ /\ me.off < Len(data)
            /\ frame' = [frame EXCEPT
                           !.ino[me.dst].data = Pwrite(@, me.off, data[me.off + 1]),
                           !.p[i].off = @ + 1]
         \/ /\ me.off < Len(data)
            /\ frame' = CASE me.site = "Backup" -> UpdateReturn(frame, i, "ErrBackupFailed")
                           [] me.site = "Replace" -> ReplaceFailed(frame, i, "ReplaceCopyFailed")
                           [] OTHER -> UpdateReturn(frame, i, me.err)
         \/ /\ me.off >= Len(data)
            /\ frame' = [frame EXCEPT
                           !.p[i].pc = CASE me.site = "Backup" -> "Replace"
                                          [] me.site = "Replace" -> "Replace.SetExecutable"
                                          [] OTHER -> "Restore.SetExecutable"]
  /\ UNCHANGED <<call, installation>>

\* os.Chmod(path, 0755): the frame after it
Chmod(f, path) == [f EXCEPT !.ino[f.dir[path]].mode = ModeExec]

\* replaceUnix, 138-143: SetExecutable, and Update returns nil
ReplaceChmod(i) ==
  /\ frame.pc = "Update"
  /\ frame.p[i].pc = "Replace.SetExecutable"
  /\ \/ /\ frame.dir.bin # 0
        /\ frame' = UpdateReturn(Chmod(frame, "bin"), i, "")
     \/ frame' = ReplaceFailed(frame, i, "SetPermissionsFailed")
  /\ UNCHANGED <<call, installation>>

\* update.go 121-125 and Restore, binary.go 88-96: the backup and the binary
\* path are opened; Update returns the error of Replace whatever Restore does
RestoreOpen(i) ==
  /\ frame.pc = "Update"
  /\ frame.p[i].pc = "Restore"
  /\ \/ /\ frame.dir.bak # 0
        /\ CanOpenTrunc(frame, "bin")
        /\ frame' = [OpenTrunc(frame, i, "bin", frame.ino[frame.dir.bak].mode) EXCEPT
                       !.p[i].pc = "io.Copy", !.p[i].site = "Restore",
                       !.p[i].src = frame.dir.bak, !.p[i].off = 0]
     \/ frame' = UpdateReturn(frame, i, frame.p[i].err)
  /\ UNCHANGED <<call, installation>>

\* Restore, 98-105
RestoreChmod(i) ==
  /\ frame.pc = "Update"
  /\ frame.p[i].pc = "Restore.SetExecutable"
  /\ \/ /\ frame.dir.bin # 0
        /\ frame' = UpdateReturn(Chmod(frame, "bin"), i, frame.p[i].err)
     \/ frame' = UpdateReturn(frame, i, frame.p[i].err)
  /\ UNCHANGED <<call, installation>>

NextTwo ==
  \E i \in Procs :
    \/ UpdateStart(i)
    \/ BackupOpen(i)
    \/ RemoveBinary(i)
    \/ ReplaceOpen(i)
    \/ CopyStep(i)
    \/ ReplaceChmod(i)
    \/ RestoreOpen(i)
    \/ RestoreChmod(i)

SpecTwo == InitTwo /\ [][NextTwo]_vars

\* ------------------------------------------------------------- claims
Returned == pc \in {"DeferRemoveAll", "UpdateReturned"}
InUpdate == cmd = "update" /\ pc # "idle"
LastLogged(e) == log # <<>> /\ Last(log) = e
Before(a, b) == \E i, j \in 1..Len(log) : i < j /\ log[i] = a /\ log[j] = b

\* the checksum the release's manifest lists for the selected asset, or
\* <<>> when the release has no manifest or the manifest no such entry
ManifestChecksum ==
  LET release == Release(rel, goos)
      m == ChecksumAsset(release)
      entries == IF m = 0 THEN <<>>
                 ELSE ParseChecksumFile(ServedText(release.Assets[m].DownloadURL, goos))
      e == IF asset = 0 THEN 0 ELSE FindChecksum(entries, SelectedAsset.Name)
  IN  IF e = 0 THEN <<>> ELSE entries[e].Checksum

ArchiveMatchesManifest ==
  ToLower(CalculateChecksum(tmp[attempts].archive)) = ToLower(ManifestChecksum)

\* C1: during and after an update attempt the file at BinaryPath is the
\* complete old binary or a complete new binary, never missing or partial.
AtomicReplace ==
  cmd = "update" =>
    /\ Exists(fs[BinaryPath])
    /\ fs[BinaryPath].data \in {bin0.data, NewBinary, EvilBinary}

\* C2: when Update returns an error, BinaryPath holds the bytes it held
\* when Update was called.
UpdatePreservesInstallation ==
  (cmd = "update" /\ pc = "UpdateReturned" /\ result # "") =>
    (Exists(fs[BinaryPath]) /\ fs[BinaryPath].data = bin0.data)

\* C3: a failed checksum verification ends Update before Backup and Replace
\* are invoked, with ErrChecksumMismatch when the hashes differ, and leaves
\* the binary and the backup as they were when Update was called.
ChecksumMismatchIsFatal ==
  InUpdate =>
    /\ (tmp[attempts].exists /\ Logged("VerifyChecksum") /\ ~ArchiveMatchesManifest) =>
         /\ pc = "DeferRemoveAll"
         /\ result \in {"ErrChecksumMismatch", "ChecksumReadFailed"}
    /\ result \in {"ErrChecksumMismatch", "ChecksumReadFailed"} =>
         /\ Returned
         /\ LastLogged("VerifyChecksum")
         /\ ~Logged("Backup") /\ ~Logged("Replace")
         /\ fs[BinaryPath] = bin0
         /\ fs[getBackupPath] = bak0
    /\ (tmp[attempts].exists /\ result = "ErrChecksumMismatch") => ~ArchiveMatchesManifest

ChecksumMismatchReturned ==
  /\ cmd = "update" /\ pc = "UpdateReturned"
  /\ result = "ErrChecksumMismatch"
  /\ Exists(bak0)

\* C4: when the release's manifest has an entry for the selected asset,
\* Backup and Replace are reached only with an archive whose hash matches it.
VerifiedBeforeInstall ==
  (InUpdate /\ tmp[attempts].exists /\ ManifestChecksum # <<>>
     /\ (Logged("Backup") \/ Logged("Replace"))) =>
    /\ Logged("VerifyChecksum")
    /\ ArchiveMatchesManifest

\* C5: Replace is invoked only after Backup returned success in the same
\* call; a failed Backup makes Update return ErrBackupFailed without Replace.
NoReplaceWithoutBackup ==
  cmd = "update" =>
    /\ Logged("Replace") => Before("Backup:ok", "Replace")
    /\ pc \in {"Replace", "Replace.Start", "Replace.SetExecutable"} => Logged("Backup:ok")
    /\ Logged("Backup:err") =>
         /\ ~Logged("Replace")
         /\ pc \in {"DeferRemoveAll", "UpdateReturned", "idle"}
         /\ result = "ErrBackupFailed"

ReplacedAfterBackup ==
  cmd = "update" /\ pc = "UpdateReturned" /\ Logged("Replace:ok")

ReplaceErrors == {"RemoveFailed", "ReplaceCopyFailed", "SetPermissionsFailed",
                  "WriteScriptFailed", "LaunchScriptFailed"}

\* C6: a failed Replace is followed at once by exactly one Restore, and
\* Update returns the error of Replace whatever Restore returned; Update
\* calls Restore on no other path.
RestoreOnlyAfterFailedReplace ==
  cmd = "update" =>
    /\ Count("Restore") <= 1
    /\ \A i \in 1..Len(log) :
         /\ log[i] = "Restore" => (i > 1 /\ log[i - 1] = "Replace:err")
         /\ log[i] = "Replace:err" =>
              IF i = Len(log) THEN pc \in {"Restore", "idle"} ELSE log[i + 1] = "Restore"
    /\ (pc = "UpdateReturned" /\ Logged("Replace:err")) =>
         /\ Logged("Restore:ok") \/ Logged("Restore:err")
         /\ result = replaceErr
         /\ result \in ReplaceErrors

ReplaceErrorAfterFailedRestore ==
  /\ cmd = "update" /\ pc = "UpdateReturned"
  /\ Logged("Restore:err")
  /\ result \in ReplaceErrors

UpdatedAndExited ==
  /\ goos = "windows" /\ cmd = "update" /\ pc = "idle"
  /\ ended = "return" /\ result = ""

HelperDone ==
  /\ attempts > 0
  /\ helpers[attempts] = "finished"
  /\ ~Exists(fs[ScriptPath])

\* C7: on Windows, once Update has returned success and the process has
\* exited, the helper script moves the new binary to BinaryPath and then
\* deletes itself.
DeferredReplacementCompletes == UpdatedAndExited ~> HelperDone

\* C8: Backup, corrupt or delete, Restore gives back the original bytes and,
\* off Windows, the original executable bit.
RoundTrip ==
  (pc = "TestDone" /\ Logged("Backup:ok") /\ Logged("Restore:ok")) =>
    /\ Exists(fs[BinaryPath])
    /\ fs[BinaryPath].data = bin0.data
    /\ goos # "windows" => ((fs[BinaryPath].mode \in ExecModes) <=> (bin0.mode \in ExecModes))

\* C9: there is at most one backup file, at the fixed backup path, and when
\* Backup returns success it holds the bytes BinaryPath had when Backup was
\* called: the earlier backup is overwritten.
SingleGenerationBackup ==
  /\ \A n \in BackupNames : Exists(fs[n]) => n = getBackupPath
  /\ Cardinality({n \in BackupNames : Exists(fs[n])}) <= 1
  /\ LastLogged("Backup:ok") =>
       /\ Exists(fs[getBackupPath])
       /\ fs[getBackupPath].data = binAtBackup.data

BackupOverwritten ==
  /\ cmd = "update" /\ LastLogged("Backup:ok")
  /\ Exists(bak0) /\ bak0.data # binAtBackup.data

\* C10: however an Update attempt ends, its temporary directory is gone.
TmpDirRemoved ==
  (cmd = "update" /\ pc \in {"UpdateReturned", "idle"}) =>
    \A n \in 1..MaxAttempts : ~tmp[n].exists

\* C11: CheckWritePermission is the first step of Update, and when it fails
\* Update returns ErrPermissionDenied having selected no asset, created no
\* temporary directory and downloaded nothing, with the binary and the
\* backup as they were.
PermissionFailFast ==
  cmd = "update" =>
    /\ log # <<>> => log[1] = "CheckWritePermission"
    /\ pc \notin {"idle", "CheckWritePermission"} => log # <<>>
    /\ result = "ErrPermissionDenied" =>
         /\ pc \in {"UpdateReturned", "idle"}
         /\ log = <<"CheckWritePermission">>
         /\ asset = 0
         /\ tmp[attempts] = NoTmp
         /\ pc = "UpdateReturned" => (fs[BinaryPath] = bin0 /\ fs[getBackupPath] = bak0)

PermissionDeniedReturned ==
  /\ cmd = "update" /\ pc = "UpdateReturned"
  /\ result = "ErrPermissionDenied"
  /\ Exists(bak0)

\* the errors an error value carries: Update wraps or returns one error
\* and joins none
ErrorsOf(err) == IF err \in {"", "none"} THEN {} ELSE {err}
RestoreErrors == {"ErrRestoreFailed", "ErrNoBackupAvailable"}

\* C12: when Replace failed and the Restore that followed failed too, the
\* error Update returns carries the error of Replace and the error of Restore.
BothErrorsVisible ==
  (cmd = "update" /\ pc = "UpdateReturned" /\ Logged("Replace:err") /\ Logged("Restore:err")) =>
    /\ replaceErr \in ErrorsOf(result)
    /\ \E e \in RestoreErrors : e \in ErrorsOf(result)

ChecksumErrors == {"ErrChecksumMismatch", "ChecksumReadFailed"}

\* C13 as stated: after an Update that failed at the checksum verification
\* HasBackup is false.
ChecksumFailureNoBackup ==
  (cmd = "update" /\ pc = "UpdateReturned" /\ result \in ChecksumErrors) => ~HasBackup

\* C13: an Update that fails at the checksum verification leaves HasBackup
\* as it was before the call (false when there was no backup) and the backup
\* file untouched.
ChecksumFailureKeepsBackup ==
  InUpdate =>
    /\ (tmp[attempts].exists /\ Logged("VerifyChecksum") /\ ~ArchiveMatchesManifest) =>
         /\ HasBackup <=> Exists(bak0)
         /\ fs[getBackupPath] = bak0
         /\ ~Logged("Backup")
    /\ result \in ChecksumErrors =>
         /\ HasBackup <=> Exists(bak0)
         /\ ~Exists(bak0) => \A n \in BackupNames : ~Exists(fs[n])

ChecksumFailureWithoutBackup ==
  /\ cmd = "update" /\ pc = "UpdateReturned"
  /\ result = "ErrChecksumMismatch"
  /\ ~Exists(bak0) /\ ~HasBackup

\* C14: Restore without a backup file returns ErrNoBackupAvailable and
\* leaves the binary untouched; with a backup file it returns no error or
\* ErrRestoreFailed.
RestoreErrorByBackup ==
  (cmd = "rollback" /\ pc = "RollbackReturned" /\ Logged("Restore")) =>
    IF ~Exists(bak0)
    THEN /\ result = "ErrNoBackupAvailable"
         /\ fs[BinaryPath] = bin0
         /\ log = <<"Restore", "Restore:err">>
    ELSE /\ result \in {"", "ErrRestoreFailed"}
         /\ result = "" <=> Logged("Restore:ok")

RestoredNothing ==
  /\ cmd = "rollback" /\ pc = "RollbackReturned" /\ Logged("Restore")
  /\ ~Exists(bak0)
  /\ result = "ErrNoBackupAvailable"

\* -- the ordering of versions as the specification words it
\* s comes before t in lexicographic order: t continues s, or at the first
\* place where they differ s has the smaller byte
LexLess(s, t) ==
  \E k \in 1..Len(t) :
    /\ \A i \in 1..(k - 1) : i <= Len(s) /\ s[i] = t[i]
    /\ \/ k = Len(s) + 1
       \/ k <= Len(s) /\ Ord(s[k]) < Ord(t[k])

SameNumbers(v, w) == v.Major = w.Major /\ v.Minor = w.Minor /\ v.Patch = w.Patch

\* v ranks strictly below w
Below(v, w) ==
  \/ v.Major < w.Major
  \/ v.Major = w.Major /\ v.Minor < w.Minor
  \/ v.Major = w.Major /\ v.Minor = w.Minor /\ v.Patch < w.Patch
  \/ SameNumbers(v, w) /\ v.Pre # <<>> /\ w.Pre = <<>>
  \/ SameNumbers(v, w) /\ v.Pre # <<>> /\ w.Pre # <<>> /\ LexLess(v.Pre, w.Pre)

Fetched(response) == response.status = "200" /\ response.decodes

\* C15: CheckForUpdate writes no file, and when the release is fetched and
\* the current version and the tag both parse, hasUpdate is true exactly when
\* the current version ranks strictly below the tagged one; current 1.0.0
\* and tag v1.0.0 give hasUpdate = false.
CheckForUpdateCompares ==
  Returns("CheckForUpdate") =>
    LET currentVer == ParseVersion(call.args[1])
        latestVer == ParseVersion(call.args[2].tag_name)
    IN  /\ fs[BinaryPath] = bin0 /\ fs[getBackupPath] = bak0
        /\ \A p \in Paths \ {BinaryPath, getBackupPath} : ~Exists(fs[p])
        /\ \A n \in 1..MaxAttempts : tmp[n] = NoTmp
        /\ (Fetched(call.args[2]) /\ currentVer.err = "" /\ latestVer.err = "") =>
             /\ call.ret.err = ""
             /\ call.ret.hasUpdate <=> Below(currentVer.v, latestVer.v)
        /\ (/\ call.args[1] = <<"1", ".", "0", ".", "0">>
            /\ Fetched(call.args[2])
            /\ call.args[2].tag_name = <<"v", "1", ".", "0", ".", "0">>) =>
             (call.ret.err = "" /\ ~call.ret.hasUpdate)

SameVersionNoUpdate ==
  /\ Returns("CheckForUpdate")
  /\ call.args[1] = <<"1", ".", "0", ".", "0">>
  /\ call.args[2] = Response("200", TRUE, <<"v", "1", ".", "0", ".", "0">>)
  /\ call.ret.hasUpdate = FALSE
  /\ Exists(bak0)

\* C16: CheckForUpdate returns an error when the release cannot be fetched
\* or the current version or the tag does not parse; it returns no update
\* and no error only when both parsed and the tagged version is not newer.
CheckForUpdateReportsFailure ==
  Returns("CheckForUpdate") =>
    LET currentVer == ParseVersion(call.args[1])
        latestVer == ParseVersion(call.args[2].tag_name)
        failed == \/ ~Fetched(call.args[2])
                  \/ currentVer.err # ""
                  \/ latestVer.err # ""
    IN  /\ failed => (call.ret.err # "" /\ ~call.ret.hasUpdate)
        /\ (call.ret.err = "" /\ ~call.ret.hasUpdate) =>
             /\ ~failed
             /\ ~Below(currentVer.v, latestVer.v)

MalformedTagReported ==
  /\ Returns("CheckForUpdate")
  /\ call.args[2] = Response("200", TRUE, <<"v", "1", ".", "0">>)
  /\ ParseVersion(call.args[1]).err = ""
  /\ call.ret.err = "latest: ErrInvalidVersion"

\* C17: Compare(V, V) = 0 for every version V, and Compare(A, B) < 0 and
\* Compare(B, C) < 0 imply Compare(A, C) < 0.
CompareTransitiveReflexive ==
  Returns("Compare") =>
    /\ call.args[1] = call.args[2] => call.ret = 0
    /\ call.ret < 0 =>
         \A c \in Versions :
           Compare(call.args[2], c) < 0 => Compare(call.args[1], c) < 0

CompareChain ==
  /\ Returns("Compare")
  /\ call.ret < 0
  /\ call.args[1].Pre # <<>> /\ call.args[2].Pre # <<>>
  /\ \E c \in Versions : SameNumbers(call.args[2], c) /\ Compare(call.args[2], c) < 0

\* C18: Compare returns -1, 0 or 1 by the ordering: the numbers first, then
\* a release above its pre-releases, then the pre-release identifiers in
\* lexicographic order; 0 only for versions equal in all four fields.
CompareImplementsOrdering ==
  Returns("Compare") =>
    /\ call.ret \in {-1, 0, 1}
    /\ call.ret = -1 <=> Below(call.args[1], call.args[2])
    /\ call.ret = 1 <=> Below(call.args[2], call.args[1])
    /\ call.ret = 0 <=>
         /\ SameNumbers(call.args[1], call.args[2])
         /\ call.args[1].Pre = call.args[2].Pre

ComparePreReleases ==
  /\ Returns("Compare")
  /\ SameNumbers(call.args[1], call.args[2])
  /\ call.args[1].Pre = <<"r", "c", ".", "1", "0">>
  /\ call.args[2].Pre = <<"r", "c", ".", "2">>
  /\ call.ret = -1

\* C19: for a text ParseVersion accepts, String() of the version parses
\* again to a version equal in all four fields, and does not start with v.
VersionRoundTrip ==
  (Returns("ParseVersion") /\ call.ret.parsed.err = "") =>
    /\ call.ret.again.err = ""
    /\ call.ret.again.v.Major = call.ret.parsed.v.Major
    /\ call.ret.again.v.Minor = call.ret.parsed.v.Minor
    /\ call.ret.again.v.Patch = call.ret.parsed.v.Patch
    /\ call.ret.again.v.Pre = call.ret.parsed.v.Pre
    /\ call.ret.string # <<>>
    /\ Head(call.ret.string) # "v"

RoundTripOfTag ==
  /\ Returns("ParseVersion")
  /\ call.args[1] = <<" ", "v", "0", "1", ".", "1", "0", ".", "0",
                      "-", "r", "c", ".", "1", "\r", "\n">>
  /\ call.ret.parsed.v = Version(1, 10, 0, <<"r", "c", ".", "1">>)
  /\ call.ret.string = <<"1", ".", "1", "0", ".", "0", "-", "r", "c", ".", "1">>

\* two digests equal but for the case of their letters
CaseVariants == {{"ab12", "AB12"}, {"cd34", "CD34"}, {"9a9a"}, {"ef56"}}
EqualFold(x, y) ==
  Len(x) = 1 /\ Len(y) = 1 /\ \E ds \in CaseVariants : x[1] \in ds /\ y[1] \in ds

\* C20 as stated: VerifyChecksum of a file that can be read succeeds exactly
\* when expected equals the hash of the file but for case, and fails with
\* ErrChecksumMismatch otherwise.
VerifyExactlyOnEqualHash ==
  (Returns("VerifyChecksum") /\ call.args[3]) =>
    IF EqualFold(call.args[2], CalculateChecksum(call.args[1]))
    THEN call.ret = ""
    ELSE call.ret = "ErrChecksumMismatch"

\* C20: VerifyChecksum of a file that can be read succeeds exactly when
\* expected, with the white space around it removed, equals the hash of the
\* file but for case, and fails with ErrChecksumMismatch otherwise; when the
\* file cannot be read it fails with the error of reading.
VerifyOnTrimmedEqualHash ==
  Returns("VerifyChecksum") =>
    IF ~call.args[3] THEN call.ret = "ChecksumReadFailed"
    ELSE IF EqualFold(TrimSpace(call.args[2]), CalculateChecksum(call.args[1]))
    THEN call.ret = ""
    ELSE call.ret = "ErrChecksumMismatch"

VerifiedUpperCase ==
  /\ Returns("VerifyChecksum")
  /\ call.args[3]
  /\ call.args[2] = <<"AB12">>
  /\ call.ret = ""

\* the entries of the list that match the file name exactly, and those that
\* match it only by the suffix "/" followed by the name
ExactEntries(entries, filename) ==
  {i \in 1..Len(entries) : entries[i].Filename = filename}
SuffixEntries(entries, filename) ==
  {i \in 1..Len(entries) :
     /\ entries[i].Filename # filename
     /\ Len(entries[i].Filename) > Len(filename)
     /\ entries[i].Filename[Len(entries[i].Filename) - Len(filename)] = "/"
     /\ \A k \in 1..Len(filename) :
          entries[i].Filename[Len(entries[i].Filename) - Len(filename) + k] = filename[k]}

\* C21: FindChecksum gives exact matches priority: when some entry's file
\* name equals filename the checksum of such an entry is returned, wherever
\* it sits in the list; an entry matching only by the suffix "/"+filename is
\* used only when no entry matches exactly; found is false only when no
\* entry matches either way.
FindChecksumExactFirst ==
  Returns("FindChecksum") =>
    LET entries == call.args[1]
        exact == ExactEntries(entries, call.args[2])
        suffix == SuffixEntries(entries, call.args[2])
    IN  /\ exact # {} =>
             call.ret.found /\ \E i \in exact : call.ret.hex = entries[i].Checksum
        /\ (exact = {} /\ suffix # {}) =>
             call.ret.found /\ \E i \in suffix : call.ret.hex = entries[i].Checksum
        /\ ~call.ret.found <=> (exact = {} /\ suffix = {})

\* the assets of the release named exactly as the platform's asset, and
\* those whose name only starts with one of the two alternate prefixes
ExactAssets(release, os, arch) ==
  {i \in 1..Len(release.Assets) :
     release.Assets[i].Name = <<"ghex", "-", os, "-", arch,
                                IF os = "windows" THEN ".zip" ELSE ".tar.gz">>}
PrefixAssets(release, os, arch) ==
  {i \in 1..Len(release.Assets) :
     /\ i \notin ExactAssets(release, os, arch)
     /\ Len(release.Assets[i].Name) >= 5
     /\ \/ SubSeq(release.Assets[i].Name, 1, 5) = <<"ghex", "_", os, "_", arch>>
        \/ SubSeq(release.Assets[i].Name, 1, 5) = <<"ghex", "-", os, "-", arch>>}

\* C22: SelectAssetForPlatform returns the asset named AssetName(os, arch)
\* whenever the release has one, wherever it is among the assets; only
\* without an exact match does it return an asset whose name starts with
\* ghex_<os>_<arch> or ghex-<os>-<arch>; it fails with ErrAssetNotFound
\* exactly when neither kind of match exists.
SelectAssetExactFirst ==
  Returns("SelectAssetForPlatform") =>
    LET exact == ExactAssets(call.args[1], call.args[2], call.args[3])
        prefix == PrefixAssets(call.args[1], call.args[2], call.args[3])
    IN  /\ exact # {} => call.ret \in exact
        /\ (exact = {} /\ prefix # {}) => call.ret \in prefix
        /\ call.ret = 0 <=> (exact = {} /\ prefix = {})

\* an exact match is returned although an asset before it matches a prefix
ExactAfterPrefixSelected ==
  /\ Returns("SelectAssetForPlatform")
  /\ call.ret \in ExactAssets(call.args[1], call.args[2], call.args[3])
  /\ \E i \in PrefixAssets(call.args[1], call.args[2], call.args[3]) : i < call.ret

\* the releases of a fetched list whose tag parses to a version above from
NewerTags(tags, from) ==
  SelectSeq(tags, LAMBDA t : ParseVersion(t).err = "" /\ Below(from, ParseVersion(t).v))

\* C23: when the list is fetched and fromVersion parses, GetChangelog
\* returns without error exactly the releases of the fetched list whose tag
\* parses as a Version newer than fromVersion, in the order of the list;
\* releases whose tag does not parse are skipped.
ChangelogIsNewerReleases ==
  (/\ Returns("GetChangelog")
   /\ Fetched(call.args[2])
   /\ ParseVersion(call.args[1]).err = "") =>
    LET changelog == call.ret.changelog
        fetched == GetReleases(call.args[2]).releases
    IN  /\ call.ret.err = ""
        /\ [i \in 1..Len(changelog) |-> changelog[i].TagName]
             = NewerTags(call.args[2].tags, ParseVersion(call.args[1]).v)
        /\ \A i \in 1..Len(changelog) : \E j \in 1..Len(fetched) : changelog[i] = fetched[j]

\* a tag that does not parse stands between two releases that are returned
ChangelogSkipsBadTag ==
  /\ Returns("GetChangelog")
  /\ call.ret.err = ""
  /\ Len(call.ret.changelog) = 2
  /\ call.ret.changelog[1] # call.ret.changelog[2]
  /\ Len(call.args[2].tags) = 3
  /\ ParseVersion(call.args[2].tags[2]).err # ""

RECURSIVE SumTo(_, _)
\* the sum of the first i numbers of s
SumTo(s, i) == IF i = 0 THEN 0 ELSE SumTo(s, i - 1) + s[i]

\* C24: in DownloadAsset with a callback and a known total size, onProgress
\* has been invoked once for every Read that returned, the i-th time with
\* the number of bytes of the first i Reads and with the total, which is
\* above 0, so the first arguments never decrease; with an unknown total
\* size it is never invoked.
ProgressAfterEveryChunk ==
  (call.fn = "DownloadAsset" /\ "calls" \in DOMAIN frame) =>
    IF call.args[4] = "set" /\ call.args[2] > 0
    THEN /\ Len(frame.calls) = Len(frame.reads) - (IF frame.pc = "callback" THEN 1 ELSE 0)
         /\ \A i \in 1..Len(frame.calls) :
              /\ frame.calls[i] = <<SumTo(frame.reads, i), call.args[2]>>
              /\ frame.calls[i][2] > 0
              /\ i > 1 => frame.calls[i - 1][1] <= frame.calls[i][1]
    ELSE frame.calls = <<>>

\* a download of two chunks has ended well with a call after each of them
ProgressReportedTwice ==
  /\ call.fn = "DownloadAsset"
  /\ call.returned
  /\ call.ret = ""
  /\ "calls" \in DOMAIN frame
  /\ Len(frame.calls) >= 2
  /\ 0 < frame.calls[1][1]
  /\ frame.calls[1][1] < frame.calls[2][1]
  /\ frame.calls[Len(frame.calls)] = <<call.args[3], call.args[2]>>

\* what a backup file holds when it is a complete copy of a binary that was
\* installed: the backup of an earlier update, or one of the binaries
IntactBackups == CompleteBinaries \cup {<<18, 18, 18>>}
BackupCopying == pc \in {"copyFile", "io.Copy"} /\ cp.dst = getBackupPath

\* C25: a backup that exists is intact: whenever HasBackup() is true and
\* Backup is not in the middle of its copy, the backup file is a complete
\* copy of a binary as it was at a successful Backup(); a Backup() that
\* fails with ErrBackupFailed leaves the backup stored before unchanged.
BackupAlwaysIntact ==
  (HasBackup /\ ~BackupCopying) => fs[getBackupPath].data \in IntactBackups

\* C26: where the operating system forbids writing to a running executable,
\* neither Replace nor Restore opens the file at binaryPath for writing while
\* it is the running executable, so that a rollback run from the installed
\* binary with a backup present does not fail on the busy file.
NeverOpensRunningBinary ==
  ~(pc = "copyFile" /\ cp.site \in {"Replace", "Restore"} /\ TextBusy(cp.dst))

MultipleBounded ==
  (call.fn = "Multiple" /\ frame.pc # "none") =>
    /\ Cardinality({k \in DOMAIN frame.g : frame.g[k] = "FromURL"}) <= 5
    /\ call.returned => \A k \in 1..call.args[1] : frame.g[k] \in {"deferred", "Done", "exit"}

\* five downloads are in progress and a sixth goroutine waits for its turn
SixthWaits ==
  /\ call.fn = "Multiple"
  /\ frame.pc # "none"
  /\ Cardinality({k \in DOMAIN frame.g : frame.g[k] = "FromURL"}) = 5
  /\ \E k \in DOMAIN frame.g : frame.g[k] = "go"

RetriesLimit == IF call.args[2] <= 0 THEN 3 ELSE call.args[2]
AsksAgainAfter(status) == status = 0 \/ status = 429 \/ status >= 500
RetriesBounded ==
  (call.fn = "FromURL" /\ frame.pc \notin {"none"} /\ call.args[1] = "https://") =>
    LET requests == frame.outcomes
    IN  /\ Len(requests) <= RetriesLimit + 1
        /\ \A i \in 1..(Len(requests) - 1) : AsksAgainAfter(requests[i])
        /\ (frame.pc = "Do" /\ requests # <<>>) => AsksAgainAfter(Last(requests))
        /\ call.returned =>
             /\ call.ret = "" => Last(requests) = 200
             /\ AsksAgainAfter(Last(requests)) =>
                  call.ret # "" /\ Len(requests) = RetriesLimit + 1

\* C30: the retry loop of download.FromURL is bounded and selective: a call
\* makes at most effectiveRetries()+1 requests (Retries <= 0 standing for 3
\* retries); it asks again only after a transport error, a 429 or a status
\* of 500 and above, never after another status; and the call always ends,
\* with a response or an error.
FromURLRetriesBounded == [](RetriesBounded) /\ <>(call.returned)

\* with Retries left at 0 the fourth request has failed and the call has
\* returned the error
DefaultRetriesExhausted ==
  /\ call.fn = "FromURL"
  /\ call.returned
  /\ call.args[1] = "https://"
  /\ call.args[2] = 0
  /\ Len(frame.outcomes) = 4
  /\ call.ret # ""

TwoUpdates == call.fn = "Update" /\ frame.pc = "Update"
BothReturnedNil == TwoUpdates /\ \A i \in Procs : frame.p[i].result = ""
InstalledAtPath(path) == IF frame.dir[path] = 0 THEN <<>> ELSE frame.ino[frame.dir[path]].data

====
